---- MODULE Spec2Model ----
(***************************************************************************)
(* A model of the pokertable table engine (package pokertable): one table, *)
(* its hand lifecycle (tableGameOpen / openGame / startGame / settleGame / *)
(* continueGame), the Game hand driver with its state channel and ready    *)
(* group, and the public calls that run with and without the engine mutex. *)
(*                                                                         *)
(* Go indexes are kept 0-based in the data (player indexes, game-player    *)
(* indexes, seat ids); a Go slice s is a TLA+ sequence read as s[i + 1].   *)
(*                                                                         *)
(* The poker engine behind GameBackend (pokerlib) is an external library:  *)
(* it is modelled as a nondeterministic step function that walks the       *)
(* events ReadyRequested, AnteRequested, BlindsRequested, RoundStarted,    *)
(* RoundClosed, GameClosed and may fail in CreateGame.                     *)
(***************************************************************************)
EXTENDS Integers, Sequences, FiniteSets, TLC

VARIABLES
    table,      \* te.table: the live Table (Meta is fixed, State is the record)
    sm,         \* te.sm: the seat manager
    ogm,        \* te.ogm: the open game manager
    game,       \* te.game: the hand driver (g.gs, g.incomingStates, g.isClosed, g.rg)
    lock,       \* holder of te.lock
    pga,        \* the player action that holds te.lock between its Game call and its writes
    tgo,        \* the frame of a running tableGameOpen call
    upd,        \* position of the Game's state consumer goroutine
    task,       \* te.tbForOpenGame: the pending continuation task
    isReleased, \* te.isReleased
    panicked,   \* a goroutine hit a runtime panic (index out of range): the process is gone
    stg,        \* the StartTableGame calls past their StartAt test, and the callbacks made
    ret         \* what the step just taken returned and did (reset by every step)

vars == <<table, sm, ogm, game, lock, pga, tgo, upd, task, isReleased, panicked, stg, ret>>

----------------------------------------------------------------------------
(* Bounds of the model *)

\* number of seats of the table (Meta.TableMaxSeatCount of the setting)
TableMaxSeatCount == 3
\* hands a behaviour may open
MaxGameCount == 1
\* successful player moves the backend accepts in one hand before it closes it
MaxHandActions == 2
\* most chips PlayerReserve and PlayerRedeemChips credit while one Game is current
MaxCredited == 1
\* the moves a betting round lasts at most where the statistics of the hand are followed
MaxStatActions == 3
\* most StartTableGame calls of the collaborator that run at the same time
MaxStartCalls == 2

(* Program constants *)

UnsetValue == -1
TableMinPlayerCount == 2
Retry == 10

PlayerIDs == {"A", "B", "C"}
Seats == 0 .. (TableMaxSeatCount - 1)

\* TableSetting.JoinPlayers of the CreateTable call the model starts from
JoinPlayers ==
    << [PlayerID |-> "A", RedeemChips |-> 1, Seat |-> 0],
       [PlayerID |-> "B", RedeemChips |-> 1, Seat |-> 2] >>

\* TableSetting.Blind values and UpdateBlind arguments the model draws from
BlindInputs ==
    { [Level |-> 1,  Ante |-> 0, SB |-> 1, BB |-> 2],
      [Level |-> 0,  Ante |-> 0, SB |-> 0, BB |-> 0],
      [Level |-> -1, Ante |-> 0, SB |-> 1, BB |-> 2],
      [Level |-> -1, Ante |-> 0, SB |-> 0, BB |-> 0] }

\* a blind level with an ante
AnteBlind == [Level |-> 1, Ante |-> 1, SB |-> 1, BB |-> 2]

----------------------------------------------------------------------------
(* Generic helpers *)

Range(s) == { s[i] : i \in DOMAIN s }

RECURSIVE SeqSum(_)
SeqSum(s) == IF s = <<>> THEN 0 ELSE Head(s) + SeqSum(Tail(s))

RECURSIVE FilterSeq(_, _)
\* the elements of s that are in the set keep, in order
FilterSeq(s, keep) ==
    IF s = <<>> THEN <<>>
    ELSE (IF Head(s) \in keep THEN <<Head(s)>> ELSE <<>>) \o FilterSeq(Tail(s), keep)

\* Go's remainder: the sign follows the dividend
GoMod(a, n) == IF a >= 0 THEN a % n ELSE 0 - ((0 - a) % n)

----------------------------------------------------------------------------
(* Status values *)

Status_Created == "created"
Status_Balancing == "balancing"
Status_Pausing == "pausing"
Status_Standby == "standby"
Status_GameOpened == "game_opened"
Status_GamePlaying == "playing"
Status_GameSettled == "game_settled"
Status_Closed == "closed"

\* Table.Meta.Mode
CompetitionMode_CT == "ct"
CompetitionMode_MTT == "mtt"
CompetitionMode_Cash == "cash"
CompetitionModes == {CompetitionMode_CT, CompetitionMode_MTT, CompetitionMode_Cash}

gameStartingStatuses == {Status_GameOpened, Status_GamePlaying, Status_GameSettled}

----------------------------------------------------------------------------
(* Blind state *)

IsSet(bs) == bs.Level # 0 /\ bs.SB > 0 /\ bs.BB > 0

IsBreaking(bs) == bs.Level = -1

ShouldPause_Mutant(t) == t.BlindState.Level = 0

ShouldPause(t) == t.BlindState.Level = -1

----------------------------------------------------------------------------
(* The hand state handed over by the GameBackend *)

\* a nil *pokerlib.GameState
NilGameState ==
    [event |-> "nil", cur |-> UnsetValue, bank |-> <<>>, pos |-> <<>>, steps |-> 0,
     allow |-> {}, finals |-> <<>>, ante |-> 0, seq |-> 0, hand |-> 0,
     did |-> <<>>, raiser |-> UnsetValue, fold |-> {}]

\* a nil *TablePlayerGameAction
NilAction == [PlayerID |-> "", Action |-> "nil"]

NewPlayerGameStatistics ==
    [ActionTimes |-> 0, IsFold |-> FALSE,
     Is3BChance |-> FALSE, Is3B |-> FALSE, IsFt3BChance |-> FALSE, IsFt3B |-> FALSE,
     IsCBetChance |-> FALSE, IsCBet |-> FALSE, IsFtCBChance |-> FALSE, IsFtCB |-> FALSE,
     ShowdownWinningChance |-> FALSE, IsShowdownWinning |-> FALSE]

----------------------------------------------------------------------------
(* Table lookups *)

FindPlayerIdx(t, playerID) ==
    IF \E i \in 1 .. Len(t.PlayerStates) : t.PlayerStates[i].PlayerID = playerID
    THEN (CHOOSE i \in 1 .. Len(t.PlayerStates) : t.PlayerStates[i].PlayerID = playerID) - 1
    ELSE UnsetValue

\* the positions k of GamePlayerIndexes the loop of FindGamePlayerIdx reads before
\* it returns: every one up to the first match
FindGamePlayerIdxHit(t, playerID, k) ==
    /\ t.GamePlayerIndexes[k] + 1 \in 1 .. Len(t.PlayerStates)
    /\ t.PlayerStates[t.GamePlayerIndexes[k] + 1].PlayerID = playerID

\* FindGamePlayerIdx indexes PlayerStates with an entry that is out of range
FindGamePlayerIdxPanics(t, playerID) ==
    \E k \in 1 .. Len(t.GamePlayerIndexes) :
        /\ t.GamePlayerIndexes[k] + 1 \notin 1 .. Len(t.PlayerStates)
        /\ \A j \in 1 .. (k - 1) : ~FindGamePlayerIdxHit(t, playerID, j)

FindGamePlayerIdx(t, playerID) ==
    IF \E k \in 1 .. Len(t.GamePlayerIndexes) : FindGamePlayerIdxHit(t, playerID, k)
    THEN (CHOOSE k \in 1 .. Len(t.GamePlayerIndexes) :
            /\ FindGamePlayerIdxHit(t, playerID, k)
            /\ \A j \in 1 .. (k - 1) : ~FindGamePlayerIdxHit(t, playerID, j)) - 1
    ELSE UnsetValue

FindPlayerIndexFromGamePlayerIndex(t, gamePlayerIdx) ==
    IF gamePlayerIdx < 0 \/ gamePlayerIdx >= Len(t.GamePlayerIndexes)
    THEN UnsetValue
    ELSE t.GamePlayerIndexes[gamePlayerIdx + 1]

\* the chips on the table: the sum of the bankrolls of its players
TableChips(t) == SeqSum([i \in 1 .. Len(t.PlayerStates) |-> t.PlayerStates[i].Bankroll])

AlivePlayers(t) ==
    { i \in 1 .. Len(t.PlayerStates) : t.PlayerStates[i].Bankroll > 0 }

NewDefaultSeatMap == [s \in Seats |-> UnsetValue]

----------------------------------------------------------------------------
(* The seat manager (package seat_manager) *)

NewSeatManager ==
    [seat |-> [p \in PlayerIDs |-> UnsetValue], isIn |-> {}, hasChips |-> {},
     dealer |-> UnsetValue, sb |-> UnsetValue, bb |-> UnsetValue, inited |-> FALSE]

\* AssignSeats: a seated player starts with chips and has not joined yet
SmAssignSeat(s, playerID, seatID) ==
    [s EXCEPT !.seat[playerID] = seatID, !.hasChips = @ \cup {playerID}]

SmJoinPlayers(s, ids) == [s EXCEPT !.isIn = @ \cup {p \in ids : s.seat[p] # UnsetValue}]

SmUpdatePlayerHasChips(s, playerID, has) ==
    [s EXCEPT !.hasChips = IF has THEN @ \cup {playerID} ELSE @ \ {playerID}]

SmRemoveSeats(s, ids) ==
    [s EXCEPT !.seat = [p \in PlayerIDs |-> IF p \in ids THEN UnsetValue ELSE s.seat[p]],
              !.isIn = @ \ ids,
              !.hasChips = @ \ ids]

SmHasPlayer(s, playerID) == s.seat[playerID] # UnsetValue

\* IsPlayerActive: isIn and hasChips (the engine never sits a player out)
SmIsPlayerActive(s, playerID) ==
    SmHasPlayer(s, playerID) /\ playerID \in s.isIn /\ playerID \in s.hasChips

SmActiveSeats(s) == { s.seat[p] : p \in { q \in PlayerIDs : SmIsPlayerActive(s, q) } }

\* the first seat of act clockwise after seat from
SmNextActiveSeat(from, act) ==
    LET d == CHOOSE k \in 1 .. TableMaxSeatCount :
                /\ ((from + k) % TableMaxSeatCount) \in act
                /\ \A j \in 1 .. (k - 1) : ((from + j) % TableMaxSeatCount) \notin act
    IN (from + d) % TableMaxSeatCount

\* dealer, then SB and BB on the next active seats; heads-up: the dealer is the SB
SmPlacePositions(s, dealerSeat) ==
    LET act == SmActiveSeats(s)
        sbSeat == IF Cardinality(act) = 2 THEN dealerSeat ELSE SmNextActiveSeat(dealerSeat, act)
        bbSeat == SmNextActiveSeat(sbSeat, act)
    IN [s EXCEPT !.dealer = dealerSeat, !.sb = sbSeat, !.bb = bbSeat, !.inited = TRUE]

\* InitPositions and RotatePositions need two active seats
SmCanPlacePositions(s) == Cardinality(SmActiveSeats(s)) >= 2

\* InitPositions(true): a random active seat, the argument, gets the dealer button
SmInitPositions(s, dealerSeat) == SmPlacePositions(s, dealerSeat)

\* RotatePositions: the button moves to the next active seat
SmRotatePositions(s) == SmPlacePositions(s, SmNextActiveSeat(s.dealer, SmActiveSeats(s)))

\* the random dealer seats InitPositions(true) may draw in this state
DealerChoices(s) ==
    IF ~s.inited /\ SmCanPlacePositions(s) THEN SmActiveSeats(s) ELSE {UnsetValue}

----------------------------------------------------------------------------
(* Game player indexes and positions *)

\* a Go map read: a missing key reads as 0
SeatMapGet(seatMap, seatID) == IF seatID \in DOMAIN seatMap THEN seatMap[seatID] ELSE 0

\* playerIdx >= 0 && players[playerIdx].IsParticipated, for the player on the seat
IsParticipatedAt(seatMap, players, seatID) ==
    LET playerIdx == SeatMapGet(seatMap, seatID)
    IN /\ playerIdx >= 0
       /\ playerIdx < Len(players)
       /\ players[playerIdx + 1].IsParticipated

\* the seat ids the loop i := start; i < n+start visits
SeatRing(start, n) == [k \in 1 .. n |-> GoMod(start + k - 1, n)]

\* participating players in clockwise seat order from seat start
GamePlayerIndexesFrom(start, seatMap, players) ==
    LET ring == SeatRing(start, Cardinality(DOMAIN seatMap))
        kept == FilterSeq(ring, { x \in Range(ring) : IsParticipatedAt(seatMap, players, x) })
    IN [k \in 1 .. Len(kept) |-> SeatMapGet(seatMap, kept[k])]

\* the first active seat scanning counter-clockwise from the seat before startSeatID
FakeDealerSeatID(startSeatID, maxSeatCount, s) ==
    LET hit == { k \in 1 .. maxSeatCount :
                    GoMod(startSeatID + maxSeatCount - k, maxSeatCount) \in SmActiveSeats(s) }
        first == CHOOSE k \in hit : \A j \in hit : k <= j
    IN IF hit = {} THEN UnsetValue
       ELSE GoMod(startSeatID + maxSeatCount - first, maxSeatCount)

calcGamePlayerIndexes_Mutant(maxSeatCount, currentDealerSeatID, currentSBSeatID, currentBBSeatID, seatMap, players, s) ==
    GamePlayerIndexesFrom(currentBBSeatID, seatMap, players)

\* calcGamePlayerIndexes for the Default and Omaha rules
calcGamePlayerIndexes(maxSeatCount, currentDealerSeatID, currentSBSeatID, currentBBSeatID, seatMap, players, s) ==
    LET hasDealer == \E i \in 1 .. Len(players) :
                        players[i].IsParticipated /\ players[i].Seat = currentDealerSeatID
        hasSB == \E i \in 1 .. Len(players) :
                        players[i].IsParticipated /\ players[i].Seat = currentSBSeatID
        startSeatID == IF hasSB THEN currentSBSeatID ELSE currentBBSeatID
    IN IF hasDealer
       THEN GamePlayerIndexesFrom(currentDealerSeatID, seatMap, players)
       ELSE GamePlayerIndexesFrom(FakeDealerSeatID(startSeatID, maxSeatCount, s),
                                  seatMap, players)

\* updatePlayerPositions: each participating player gets the positions of its seat
updatePlayerPositions(players, s) ==
    [i \in 1 .. Len(players) |->
        [players[i] EXCEPT !.Positions =
            IF players[i].IsParticipated
            THEN ({"dealer"} \cap (IF players[i].Seat = s.dealer THEN {"dealer"} ELSE {}))
                 \cup (IF players[i].Seat = s.sb THEN {"sb"} ELSE {})
                 \cup (IF players[i].Seat = s.bb THEN {"bb"} ELSE {})
            ELSE {}]]

----------------------------------------------------------------------------
(* openGame *)

Err_Nil == "nil"
Err_OpenGameFailed == "ErrTableOpenGameFailed"
Err_OpenGameFailedInBlindBreakingLevel == "ErrTableOpenGameFailedInBlindBreakingLevel"
Err_SeatManager == "seat_manager: player not found"

nextGameCount_Mutant(t) == t.GameCount + 2

\* GameCount of the hand being opened
nextGameCount(t) == t.GameCount + 1

OpenGameLeaves_Mutant(oldTable, cloneTable) == cloneTable

\* what openGame leaves in the Table it was handed when it returns an error:
\* every write went to the deep clone, so the Table is as it was
OpenGameLeaves(oldTable, cloneTable) == oldTable

\* openGame(oldTable) with the seat manager in state s; dealerSeat is the seat
\* InitPositions(true) draws. live is the Table oldTable points to after the call,
\* new the Table returned, sm the seat manager after the call.
openGame(oldTable, s, dealerSeat) ==
    IF ~IsSet(oldTable.BlindState)
    THEN [live |-> oldTable, new |-> oldTable, sm |-> s, err |-> Err_OpenGameFailed]
    ELSE IF IsBreaking(oldTable.BlindState)
    THEN [live |-> oldTable, new |-> oldTable, sm |-> s,
          err |-> Err_OpenGameFailedInBlindBreakingLevel]
    ELSE LET opened == [oldTable EXCEPT !.Status = Status_GameOpened] IN
    IF ~SmCanPlacePositions(s)
    THEN [live |-> OpenGameLeaves(oldTable, opened), new |-> oldTable, sm |-> s,
          err |-> Err_OpenGameFailed]
    ELSE LET s1 == IF ~s.inited THEN SmInitPositions(s, dealerSeat) ELSE SmRotatePositions(s) IN
    IF \E i \in 1 .. Len(oldTable.PlayerStates) : ~SmHasPlayer(s1, oldTable.PlayerStates[i].PlayerID)
    THEN [live |-> OpenGameLeaves(oldTable, opened), new |-> oldTable, sm |-> s1,
          err |-> Err_SeatManager]
    ELSE LET participated ==
                [i \in 1 .. Len(opened.PlayerStates) |->
                    [opened.PlayerStates[i] EXCEPT
                        !.IsParticipated = SmIsPlayerActive(s1, opened.PlayerStates[i].PlayerID)]]
             gamePlayerIndexes ==
                calcGamePlayerIndexes(TableMaxSeatCount, s1.dealer, s1.sb, s1.bb,
                                      opened.SeatMap, participated, s1)
             cloneTable ==
                [opened EXCEPT !.PlayerStates = updatePlayerPositions(participated, s1),
                               !.GamePlayerIndexes = gamePlayerIndexes,
                               !.GameCount = nextGameCount(opened),
                               !.CurrentDealerSeat = s1.dealer,
                               !.CurrentSBSeat = s1.sb,
                               !.CurrentBBSeat = s1.bb]
         IN [live |-> oldTable, new |-> cloneTable, sm |-> s1, err |-> Err_Nil]

----------------------------------------------------------------------------
(* The state after CreateTable *)

\* the largest member of a non-empty set of indexes: the last write of a Go loop
LastIdx(S) == CHOOSE i \in S : \A j \in S : j <= i

\* batchAddPlayers on the seat manager: AssignSeats with the requested seats
SmAssignSeats(s, players) ==
    LET ids == { players[i].PlayerID : i \in 1 .. Len(players) }
        seatOf(p) == (CHOOSE i \in 1 .. Len(players) : players[i].PlayerID = p)
    IN [s EXCEPT !.seat = [p \in PlayerIDs |->
                              IF p \in ids THEN players[seatOf(p)].Seat ELSE s.seat[p]],
                 !.hasChips = @ \cup ids]

\* batchAddPlayers on the Table, s being the seat manager after the seats were
\* assigned: each entry of players is appended with the seat GetSeatID returns, not
\* yet in, and newSeatMap[seat] is written entry by entry
batchAddPlayers(t, s, players) ==
    LET newPlayers == [i \in 1 .. Len(players) |->
                          [PlayerID |-> players[i].PlayerID,
                           Seat |-> s.seat[players[i].PlayerID],
                           Positions |-> {},
                           IsParticipated |-> FALSE,
                           Bankroll |-> players[i].RedeemChips,
                           IsIn |-> FALSE,
                           GameStatistics |-> NewPlayerGameStatistics]]
        at(seatID) == { i \in 1 .. Len(players) : newPlayers[i].Seat = seatID }
    IN [t EXCEPT !.PlayerStates = @ \o newPlayers,
                 !.SeatMap = [x \in DOMAIN t.SeatMap |->
                                 IF at(x) # {}
                                 THEN Len(t.PlayerStates) + LastIdx(at(x)) - 1
                                 ELSE t.SeatMap[x]]]

\* CreateTable(tableSetting) with Mode CT, the blind and JoinPlayers of the setting
CreateTable(blind) ==
    batchAddPlayers(
        [Mode |-> CompetitionMode_CT,
         Status |-> IF blind.Level = -1 THEN Status_Pausing ELSE Status_Created,
         StartAt |-> UnsetValue,
         GameCount |-> 0,
         BlindState |-> blind,
         CurrentDealerSeat |-> UnsetValue,
         CurrentSBSeat |-> UnsetValue,
         CurrentBBSeat |-> UnsetValue,
         SeatMap |-> NewDefaultSeatMap,
         PlayerStates |-> <<>>,
         GamePlayerIndexes |-> <<>>,
         GameState |-> NilGameState,
         LastPlayerGameAction |-> NilAction,
         NextBBOrderPlayerIDs |-> <<>>],
        SmAssignSeats(NewSeatManager, JoinPlayers),
        JoinPlayers)

\* CreateTable(tableSetting) with the given Meta.Mode: a table of an MTT that is
\* created with players and is not pausing starts in balancing
CreateTableIn(mode, blind) ==
    [CreateTable(blind) EXCEPT
        !.Mode = mode,
        !.Status = IF mode = CompetitionMode_MTT /\ @ # Status_Pausing
                   THEN Status_Balancing ELSE @]

\* no Game yet: te.game is nil. hand numbers the Games startGame creates. Kept for
\* the record of the run: nstored counts the states g.updateGameState stored,
\* nhandled the states handleGameState was given, narmed the times a handler started
\* the ready group, nsteps the ReadyForAll / PayAnte / PayBlinds calls of its
\* completion, closes the close(g.incomingStates) calls; antesCb is set while the
\* timer goroutine that completed the ante barrier has not returned from OnAntesReceived
NoGame ==
    [hand |-> 0, gs |-> NilGameState, incomingStates |-> <<>>, isClosed |-> FALSE,
     rg |-> [on |-> FALSE, waiting |-> {}],
     nstored |-> 0, nhandled |-> 0, narmed |-> 0, nsteps |-> 0, closes |-> 0,
     antesCb |-> FALSE, startChips |-> 0, credited |-> 0]

IdleFrame == [pc |-> "idle", i |-> 0, attempts |-> 0, newTable |-> CreateTable([Level |-> 0, Ante |-> 0, SB |-> 0, BB |-> 0])]

\* no player action is between its Game call and its writes
NoAct == [pc |-> "idle", playerID |-> "", action |-> "", playerIdx |-> UnsetValue, isRaiser |-> FALSE]

IdleUpdater == [pc |-> "idle", gs |-> NilGameState, alive |-> {}]

\* expired: continueGame found the table time of a CT or Cash table over and
\* scheduled the handler that only reports it. Kept for the record of the run:
\* released tells whether the table was released or closed when the task was scheduled,
\* calls counts the calls of te.delay, runs the tasks that ran the handler and
\* cancels the tasks called with isCancelled: both release the wait-group of delay
NoTask == [pending |-> FALSE, alive |-> {}, expired |-> FALSE, released |-> FALSE,
           calls |-> 0, runs |-> 0, cancels |-> 0]

\* op: the call that returned or the stage it reached; pid: its player; err: its error;
\* openErr: the result of the openGame attempt the step made ("" when it made none);
\* attempts: openGame attempts of the tableGameOpen call so far; committed: the call
\* replaced te.table and emitted tableGameOpen; backend: the GameBackend was called
\* emits: the emitEvent calls of the step, each adding one to Table.UpdateSerial;
\* statusUpdated: the step emitted the StatusUpdated table state event; autoEnd: its
\* onAutoGameOpenEnd calls; setup: it called te.SetUpTableGame for the next hand;
\* asRaiser: the move left its player as Status.CurrentRaiser; winners: the game
\* players rank.GetWinners() gave settleGame
NoReturn == [op |-> "none", pid |-> "", err |-> Err_Nil, openErr |-> "", attempts |-> 0,
             committed |-> FALSE, backend |-> FALSE, emits |-> 0,
             statusUpdated |-> FALSE, autoEnd |-> 0, setup |-> FALSE, asRaiser |-> FALSE,
             winners |-> {}]

Return(op, pid, err) == [NoReturn EXCEPT !.op = op, !.pid = pid, !.err = err]

\* te.emitEvent(eventName, playerID), recorded in what the step returns
emitEvent(r) == [r EXCEPT !.emits = @ + 1]

\* no StartTableGame call is running and the table has not asked for its first hand
NoStart == [calls |-> 0, opens |-> 0]

InitBlind(blind) ==
    /\ table = CreateTable(blind)
    /\ sm = SmAssignSeats(NewSeatManager, JoinPlayers)
    /\ ogm = [armed |-> FALSE, parts |-> {}, ready |-> {}]
    /\ game = NoGame
    /\ lock = "none"
    /\ pga = NoAct
    /\ tgo = IdleFrame
    /\ upd = IdleUpdater
    /\ task = NoTask
    /\ isReleased = FALSE
    /\ panicked = FALSE
    /\ stg = NoStart
    /\ ret = NoReturn

Init == \E blind \in BlindInputs : InitBlind(blind)

----------------------------------------------------------------------------
(* Calls that do not take te.lock *)

Err_PlayerNotFound == "ErrTablePlayerNotFound"
Err_InvalidGameAction == "ErrTablePlayerInvalidGameAction"
Err_GamePlayerNotFound == "ErrGamePlayerNotFound"
Err_GameInvalidAction == "ErrGameInvalidAction"
Err_CreateGame == "backend: CreateGame failed"
Err_Panic == "panic: index out of range"

PlayerJoin(playerID) ==
    /\ ~panicked
    /\ LET playerIdx == FindPlayerIdx(table, playerID) IN
       IF playerIdx = UnsetValue
       THEN /\ ret' = NoReturn
            /\ UNCHANGED <<table, sm>>
       ELSE IF table.PlayerStates[playerIdx + 1].IsIn
       THEN /\ ret' = NoReturn
            /\ UNCHANGED <<table, sm>>
       ELSE /\ table' = [table EXCEPT !.PlayerStates[playerIdx + 1].IsIn = TRUE]
            /\ sm' = SmJoinPlayers(sm, {playerID})
            /\ ret' = emitEvent(NoReturn)
    /\ UNCHANGED <<ogm, game, lock, pga, tgo, upd, task, isReleased, panicked, stg>>

\* the seconds time.Now().Unix() returns to StartTableGame
StartTimes == 1 .. 2

\* the test of the completion of te.rg: all in, enough players alive, no hand yet, the
\* blind set and no hand played; only a table of an MTT starts itself
autoStarts(t) ==
    /\ Len(t.PlayerStates) >= 2
    /\ Cardinality({ i \in 1 .. Len(t.PlayerStates) : t.PlayerStates[i].Bankroll > 0 }) >= 2
    /\ t.Status \notin gameStartingStatuses \cup {Status_Standby}
    /\ t.BlindState.Level > 0
    /\ t.GameCount = 0
    /\ t.Mode = CompetitionMode_MTT

\* the completion of te.rg armed by playersAutoIn: every player not in joins, and the
\* table of an MTT that is ready calls StartTableGame
PlayersAutoIn ==
    /\ ~panicked
    /\ \E i \in 1 .. Len(table.PlayerStates) : ~table.PlayerStates[i].IsIn
    /\ sm' = SmJoinPlayers(sm, { table.PlayerStates[i].PlayerID : i \in 1 .. Len(table.PlayerStates) })
    /\ LET joined == [table EXCEPT !.PlayerStates =
                         [i \in 1 .. Len(table.PlayerStates) |->
                             [table.PlayerStates[i] EXCEPT !.IsIn = TRUE]]]
           joins == Cardinality({ i \in 1 .. Len(table.PlayerStates) : ~table.PlayerStates[i].IsIn })
       IN IF autoStarts(joined) /\ joined.StartAt = UnsetValue
          THEN \E now \in StartTimes :
                  /\ table' = [joined EXCEPT !.StartAt = now]
                  /\ stg' = [stg EXCEPT !.opens = @ + 1]
                  /\ ret' = [NoReturn EXCEPT !.emits = joins + 1]
          ELSE /\ table' = joined
               /\ ret' = [NoReturn EXCEPT !.emits = joins]
               /\ UNCHANGED stg
    /\ UNCHANGED <<ogm, game, lock, pga, tgo, upd, task, isReleased, panicked>>

\* StartTableGame up to its test of StartAt: a table that has started is left alone
StartTableGame ==
    /\ ~panicked
    /\ stg.calls < MaxStartCalls
    /\ IF table.StartAt # UnsetValue
       THEN /\ ret' = Return("StartTableGame", "", Err_Nil)
            /\ UNCHANGED stg
       ELSE /\ ret' = NoReturn
            /\ stg' = [stg EXCEPT !.calls = @ + 1]
    /\ UNCHANGED <<table, sm, ogm, game, lock, pga, tgo, upd, task, isReleased, panicked>>

\* StartTableGame after its test: StartAt is written, the StartTableGame event and
\* OnReadyOpenFirstTableGame are emitted
StartTableGame_Write(now) ==
    /\ ~panicked
    /\ stg.calls > 0
    /\ table' = [table EXCEPT !.StartAt = now]
    /\ stg' = [calls |-> stg.calls - 1, opens |-> stg.opens + 1]
    /\ ret' = emitEvent(Return("StartTableGame", "", Err_Nil))
    /\ UNCHANGED <<sm, ogm, game, lock, pga, tgo, upd, task, isReleased, panicked>>

PauseTable ==
    /\ ~panicked
    /\ table' = [table EXCEPT !.Status = Status_Pausing]
    /\ ret' = [NoReturn EXCEPT !.statusUpdated = TRUE]
    /\ UNCHANGED <<sm, ogm, game, lock, pga, tgo, upd, task, isReleased, panicked, stg>>

CloseTable ==
    /\ ~panicked
    /\ table' = [table EXCEPT !.Status = Status_Closed]
    /\ isReleased' = TRUE
    /\ ret' = [emitEvent(NoReturn) EXCEPT !.statusUpdated = TRUE]
    /\ UNCHANGED <<sm, ogm, game, lock, pga, tgo, upd, task, panicked, stg>>

ReleaseTable ==
    /\ ~panicked
    /\ isReleased' = TRUE
    /\ ret' = Return("ReleaseTable", "", Err_Nil)
    /\ UNCHANGED <<table, sm, ogm, game, lock, pga, tgo, upd, task, panicked, stg>>

UpdateBlind(blind) ==
    /\ ~panicked
    /\ table' = [table EXCEPT !.BlindState = blind]
    /\ ret' = NoReturn
    /\ UNCHANGED <<sm, ogm, game, lock, pga, tgo, upd, task, isReleased, panicked, stg>>

\* SetUpTableGame(gameCount, participants): ogm.Setup arms the open game manager
SetUpTableGame(participants) ==
    /\ ~panicked
    /\ ogm' = [armed |-> TRUE, parts |-> participants, ready |-> {}]
    /\ ret' = NoReturn
    /\ UNCHANGED <<table, sm, game, lock, pga, tgo, upd, task, isReleased, panicked, stg>>

----------------------------------------------------------------------------
(* Removing players *)

\* calcLeavePlayers reads PlayerStates[playerIdx] for every game player index,
\* whatever the status: an index past the end is a runtime panic
calcLeavePlayersPanics(t) ==
    \E k \in 1 .. Len(t.GamePlayerIndexes) :
        t.GamePlayerIndexes[k] + 1 \notin 1 .. Len(t.PlayerStates)

\* calcLeavePlayers: the new PlayerStates, SeatMap and GamePlayerIndexes
calcLeavePlayers(t, leavePlayerIDs) ==
    LET stay == { i \in 1 .. Len(t.PlayerStates) :
                    t.PlayerStates[i].PlayerID \notin leavePlayerIDs }
        newPlayerStates ==
            FilterSeq(t.PlayerStates, { t.PlayerStates[i] : i \in stay })
        newIdx(playerID) ==
            LastIdx({ j \in 1 .. Len(newPlayerStates) :
                        newPlayerStates[j].PlayerID = playerID }) - 1
        newSeatMap ==
            [x \in DOMAIN t.SeatMap |->
                IF \E j \in 1 .. Len(newPlayerStates) : newPlayerStates[j].Seat = x
                THEN LastIdx({ j \in 1 .. Len(newPlayerStates) : newPlayerStates[j].Seat = x }) - 1
                ELSE UnsetValue]
        keptIdx == FilterSeq(t.GamePlayerIndexes, { i - 1 : i \in stay })
        newGamePlayerIndexes ==
            IF t.Status \in gameStartingStatuses
            THEN [k \in 1 .. Len(keptIdx) |-> newIdx(t.PlayerStates[keptIdx[k] + 1].PlayerID)]
            ELSE t.GamePlayerIndexes
    IN [t EXCEPT !.PlayerStates = newPlayerStates,
                 !.SeatMap = newSeatMap,
                 !.GamePlayerIndexes = newGamePlayerIndexes]

\* batchRemovePlayers, under te.lock
batchRemovePlayers(op, leavePlayerIDs) ==
    /\ ~panicked
    /\ lock = "none"
    /\ \A p \in leavePlayerIDs : FindPlayerIdx(table, p) # UnsetValue
    /\ IF calcLeavePlayersPanics(table)
       THEN /\ panicked' = TRUE
            /\ ret' = Return(op, "", Err_Panic)
            /\ UNCHANGED <<table, sm>>
       ELSE /\ table' = calcLeavePlayers(table, leavePlayerIDs)
            /\ sm' = SmRemoveSeats(sm, leavePlayerIDs)
            /\ ret' = emitEvent(Return(op, "", Err_Nil))
            /\ UNCHANGED panicked
    /\ UNCHANGED <<ogm, game, lock, pga, tgo, upd, task, isReleased, stg>>

PlayersLeave(playerIDs) == batchRemovePlayers("PlayersLeave", playerIDs)

----------------------------------------------------------------------------
(* Adding players *)

Err_NoEmptySeats == "ErrTableNoEmptySeats"

\* playerSeatIDs of batchAddPlayers, a Go map: the entries with a seat, the last
\* entry of a player replacing the earlier ones
playerSeatIDs(players) ==
    LET withSeat(p) == { i \in 1 .. Len(players) :
                           players[i].PlayerID = p /\ players[i].Seat # UnsetValue }
    IN [p \in { q \in PlayerIDs : withSeat(q) # {} } |-> players[LastIdx(withSeat(p))].Seat]

\* playerRandomSeatIDs of batchAddPlayers: the players that ask for any seat
playerRandomSeatIDs(players) ==
    { players[i].PlayerID : i \in { j \in 1 .. Len(players) : players[j].Seat = UnsetValue } }

SmEmptySeats(s) == { x \in Seats : \A p \in PlayerIDs : s.seat[p] # x }

\* AssignSeats fails: a seat is occupied or asked for twice (SeatUnavailable), a
\* player is seated already (PlayerAlreadySeated), a seat is out of range
SmAssignSeatsFails(s, m) ==
    \E p \in DOMAIN m :
        \/ SmHasPlayer(s, p)
        \/ m[p] \notin SmEmptySeats(s)
        \/ \E q \in DOMAIN m : q # p /\ m[q] = m[p]

\* AssignSeats or RandomAssignSeats with the seats m
SmAssignSeatMap(s, m) ==
    [s EXCEPT !.seat = [p \in PlayerIDs |-> IF p \in DOMAIN m THEN m[p] ELSE s.seat[p]],
              !.hasChips = @ \cup DOMAIN m]

\* the seats RandomAssignSeats may draw for ids: distinct empty seats
SmRandomSeats(s, ids) ==
    { r \in [ids -> SmEmptySeats(s)] : \A p, q \in ids : p # q => r[p] # r[q] }

\* te.batchAddPlayers(players): the Tables, seat managers and errors it may end
\* with. An error of the seat manager returns before the Table is written
addPlayers(t, s, players) ==
    LET m == playerSeatIDs(players)
        ids == playerRandomSeatIDs(players)
        s1 == IF DOMAIN m # {} THEN SmAssignSeatMap(s, m) ELSE s
    IN IF DOMAIN m # {} /\ SmAssignSeatsFails(s, m)
       THEN { [table |-> t, sm |-> s, err |-> Err_SeatManager] }
       ELSE IF ids # {} /\ SmRandomSeats(s1, ids) = {}
       THEN { [table |-> t, sm |-> s1, err |-> Err_SeatManager] }
       ELSE { [table |-> batchAddPlayers(t, SmAssignSeatMap(s1, r), players),
               sm |-> SmAssignSeatMap(s1, r),
               err |-> Err_Nil] : r \in SmRandomSeats(s1, ids) }

\* UpdateTablePlayers(joinPlayers, leavePlayerIDs), under te.lock: the leaving
\* players are removed, then the joining ones are added
UpdateTablePlayers(joinPlayers, leavePlayerIDs) ==
    /\ ~panicked
    /\ lock = "none"
    /\ \A p \in leavePlayerIDs : FindPlayerIdx(table, p) # UnsetValue
    /\ \A p \in playerRandomSeatIDs(joinPlayers) :
          ~SmHasPlayer(sm, p) /\ p \notin DOMAIN playerSeatIDs(joinPlayers)
    /\ IF leavePlayerIDs # {} /\ calcLeavePlayersPanics(table)
       THEN /\ panicked' = TRUE
            /\ ret' = Return("UpdateTablePlayers", "", Err_Panic)
            /\ UNCHANGED <<table, sm>>
       ELSE /\ \E added \in addPlayers(
                    IF leavePlayerIDs # {} THEN calcLeavePlayers(table, leavePlayerIDs) ELSE table,
                    IF leavePlayerIDs # {} THEN SmRemoveSeats(sm, leavePlayerIDs) ELSE sm,
                    joinPlayers) :
                 /\ table' = added.table
                 /\ sm' = added.sm
                 /\ ret' = IF added.err = Err_Nil
                           THEN emitEvent(Return("UpdateTablePlayers", "", Err_Nil))
                           ELSE Return("UpdateTablePlayers", "", added.err)
            /\ UNCHANGED panicked
    /\ UNCHANGED <<ogm, game, lock, pga, tgo, upd, task, isReleased, stg>>

\* PlayerReserve(joinPlayer), under te.lock: a buy-in of a new player or a rebuy
PlayerReserve(joinPlayer) ==
    /\ ~panicked
    /\ lock = "none"
    /\ game.credited + joinPlayer.RedeemChips <= MaxCredited
    /\ LET targetPlayerIdx == FindPlayerIdx(table, joinPlayer.PlayerID) IN
       IF targetPlayerIdx = UnsetValue
       THEN IF Len(table.PlayerStates) = TableMaxSeatCount
            THEN /\ ret' = Return("PlayerReserve", joinPlayer.PlayerID, Err_NoEmptySeats)
                 /\ UNCHANGED <<table, sm, game>>
            ELSE /\ ~SmHasPlayer(sm, joinPlayer.PlayerID)
                 /\ \E added \in addPlayers(table, sm, <<joinPlayer>>) :
                      /\ table' = added.table
                      /\ sm' = added.sm
                      /\ game' = [game EXCEPT !.credited =
                                    IF added.err = Err_Nil THEN @ + joinPlayer.RedeemChips ELSE @]
                      /\ ret' = IF added.err = Err_Nil
                                THEN emitEvent(Return("PlayerReserve", joinPlayer.PlayerID, Err_Nil))
                                ELSE Return("PlayerReserve", joinPlayer.PlayerID, added.err)
       ELSE /\ table' = [table EXCEPT !.PlayerStates[targetPlayerIdx + 1].Bankroll =
                                         @ + joinPlayer.RedeemChips]
            /\ sm' = SmUpdatePlayerHasChips(sm, joinPlayer.PlayerID, TRUE)
            /\ game' = [game EXCEPT !.credited = @ + joinPlayer.RedeemChips]
            /\ ret' = emitEvent(Return("PlayerReserve", joinPlayer.PlayerID, Err_Nil))
    /\ UNCHANGED <<ogm, lock, pga, tgo, upd, task, isReleased, panicked, stg>>

\* PlayerRedeemChips(joinPlayer), without te.lock: the bankroll grows, the seat
\* manager is not told
PlayerRedeemChips(joinPlayer) ==
    /\ ~panicked
    /\ game.credited + joinPlayer.RedeemChips <= MaxCredited
    /\ LET playerIdx == FindPlayerIdx(table, joinPlayer.PlayerID) IN
       IF playerIdx = UnsetValue
       THEN /\ ret' = Return("PlayerRedeemChips", joinPlayer.PlayerID, Err_PlayerNotFound)
            /\ UNCHANGED <<table, game>>
       ELSE /\ table' = [table EXCEPT !.PlayerStates[playerIdx + 1].Bankroll =
                                         @ + joinPlayer.RedeemChips]
            /\ game' = [game EXCEPT !.credited = @ + joinPlayer.RedeemChips]
            /\ ret' = emitEvent(Return("PlayerRedeemChips", joinPlayer.PlayerID, Err_Nil))
    /\ UNCHANGED <<sm, ogm, lock, pga, tgo, upd, task, isReleased, panicked, stg>>

----------------------------------------------------------------------------
(* The open game manager and tableGameOpen *)

\* OnOpenGameReady: every participant is ready or the timeout elapsed; with more
\* than one participant the callback calls tableGameOpen, which waits for te.lock
OnOpenGameReady ==
    /\ ~panicked
    /\ ogm.armed
    /\ tgo.pc = "idle"
    /\ ogm' = [ogm EXCEPT !.armed = FALSE]
    /\ tgo' = IF Cardinality(ogm.parts) <= 1 THEN tgo ELSE [IdleFrame EXCEPT !.pc = "call"]
    /\ ret' = NoReturn
    /\ UNCHANGED <<table, sm, game, lock, pga, upd, task, isReleased, panicked, stg>>

Err_PlayerInvalidAction == "ErrTablePlayerInvalidAction"

\* ogm.Ready(playerID): a participant of the armed manager is marked ready
ogmReady(o, playerID) ==
    IF o.armed /\ playerID \in o.parts THEN [o EXCEPT !.ready = @ \cup {playerID}] ELSE o

settlementFinishErr_Mutant(t, playerID) ==
    IF FindPlayerIdx(t, playerID) # UnsetValue /\ ~t.PlayerStates[FindPlayerIdx(t, playerID) + 1].IsIn
    THEN Err_PlayerInvalidAction
    ELSE Err_Nil

\* the checks of PlayerSettlementFinish before it calls ogm.Ready
settlementFinishErr(t, playerID) ==
    IF FindPlayerIdx(t, playerID) = UnsetValue THEN Err_PlayerNotFound
    ELSE IF ~t.PlayerStates[FindPlayerIdx(t, playerID) + 1].IsIn THEN Err_PlayerInvalidAction
    ELSE Err_Nil

\* PlayerSettlementFinish(playerID), without te.lock: the player is marked ready;
\* the Ready that completes the set runs the callback of the manager, which calls
\* tableGameOpen for more than one participant
PlayerSettlementFinish(playerID) ==
    /\ ~panicked
    /\ LET err == settlementFinishErr(table, playerID)
           o == ogmReady(ogm, playerID)
       IN IF err # Err_Nil
          THEN /\ ret' = Return("PlayerSettlementFinish", playerID, err)
               /\ UNCHANGED <<ogm, tgo>>
          ELSE /\ ret' = Return("PlayerSettlementFinish", playerID, Err_Nil)
               /\ IF o.armed /\ o.ready = o.parts
                  THEN /\ tgo.pc = "idle"
                       /\ ogm' = [o EXCEPT !.armed = FALSE]
                       /\ tgo' = IF Cardinality(o.parts) <= 1 THEN tgo
                                 ELSE [IdleFrame EXCEPT !.pc = "call"]
                  ELSE /\ ogm' = o
                       /\ UNCHANGED tgo
    /\ UNCHANGED <<table, sm, game, lock, pga, upd, task, isReleased, panicked, stg>>

retryExhausted_Mutant(i) == i >= Retry

\* the retry loop is over after the turn with loop index i: i++ reaches retry
retryExhausted(i) == i + 1 >= Retry

\* tableGameOpen returns err after the given number of openGame attempts
tgoReturn(err, openErr, attempts) ==
    /\ tgo' = IdleFrame
    /\ lock' = "none"
    /\ UNCHANGED pga
    /\ ret' = [Return("tableGameOpen", "", err) EXCEPT !.attempts = attempts,
                                                      !.openErr = openErr]

\* what tableGameOpen does with the result r of an openGame attempt
tgoAfterAttempt(r, attempts, isRetry, maxGameCount) ==
    /\ table' = r.live
    /\ sm' = r.sm
    /\ IF r.err = Err_Nil
       THEN /\ table.GameCount < maxGameCount
            /\ tgo' = [pc |-> "commit", i |-> tgo.i, attempts |-> attempts, newTable |-> r.new]
            /\ lock' = "tgo"
            /\ UNCHANGED pga
            /\ ret' = [Return("openGame", "", r.err) EXCEPT !.attempts = attempts,
                                                          !.openErr = r.err]
       ELSE IF r.err = Err_OpenGameFailed
       THEN IF isRetry /\ retryExhausted(tgo.i)
            THEN tgoReturn(r.err, r.err, attempts)
            ELSE /\ tgo' = [pc |-> "sleep", i |-> IF isRetry THEN tgo.i + 1 ELSE 0,
                            attempts |-> attempts, newTable |-> IdleFrame.newTable]
                 /\ lock' = "tgo"
                 /\ UNCHANGED pga
                 /\ ret' = [Return("openGame", "", r.err) EXCEPT !.attempts = attempts,
                                                               !.openErr = r.err]
       ELSE IF r.err = Err_OpenGameFailedInBlindBreakingLevel
       THEN tgoReturn(Err_Nil, r.err, attempts)
       ELSE tgoReturn(r.err, r.err, attempts)

\* tableGameOpen up to its first openGame, in a behaviour of at most maxGameCount hands
tableGameOpenBegin(maxGameCount) ==
    /\ ~panicked
    /\ tgo.pc = "call"
    /\ lock = "none"
    /\ IF table.GameState # NilGameState
       THEN /\ tgoReturn(Err_Nil, "", 0)
            /\ UNCHANGED <<table, sm>>
       ELSE \E dealerSeat \in DealerChoices(sm) :
                tgoAfterAttempt(openGame(table, sm, dealerSeat), 1, FALSE, maxGameCount)
    /\ UNCHANGED <<ogm, game, upd, task, isReleased, panicked, stg>>

tableGameOpen_Begin == tableGameOpenBegin(MaxGameCount)

\* one turn of the retry loop: the 3 s sleep is over
tableGameOpenRetry(maxGameCount) ==
    /\ ~panicked
    /\ tgo.pc = "sleep"
    /\ IF table.Status \in gameStartingStatuses
       THEN /\ tgoReturn(Err_Nil, "", tgo.attempts)
            /\ UNCHANGED <<table, sm>>
       ELSE \E dealerSeat \in DealerChoices(sm) :
                tgoAfterAttempt(openGame(table, sm, dealerSeat), tgo.attempts + 1, TRUE, maxGameCount)
    /\ UNCHANGED <<ogm, game, upd, task, isReleased, panicked, stg>>

tableGameOpen_Retry == tableGameOpenRetry(MaxGameCount)

----------------------------------------------------------------------------
(* The GameBackend: an abstract hand *)

\* CreateGame(opts): the hand waits for every player to be ready
BackendCreateGame(bankrolls, positions, ante) ==
    [event |-> "ReadyRequested", cur |-> UnsetValue, bank |-> bankrolls, pos |-> positions,
     steps |-> 0, allow |-> {}, finals |-> <<>>, ante |-> ante, seq |-> 0, hand |-> 0,
     did |-> [k \in 1 .. Len(bankrolls) |-> ""], raiser |-> UnsetValue, fold |-> {}]

\* ReadyForAll: the ante is requested when one is configured, else the blinds
BackendReadyForAll(gs) ==
    [gs EXCEPT !.event = IF gs.ante > 0 THEN "AnteRequested" ELSE "BlindsRequested",
               !.allow = {}]

\* PayAnte: blinds are requested next
BackendPayAnte(gs) == [gs EXCEPT !.event = "BlindsRequested", !.allow = {}]

\* the first player to act: the dealer heads-up, else the player after the BB
FirstToAct(n) == IF n <= 2 THEN 0 ELSE 3 % n

\* PayBlinds: the first betting round starts
BackendPayBlinds(gs) ==
    [gs EXCEPT !.event = "RoundStarted", !.cur = FirstToAct(Len(gs.bank)), !.allow = {}]

\* a move of the current player: the turn passes on (roundEnds false) or the
\* round closes; the round closes at the latest after maxActions moves
BackendMove_Mutant(gs, roundEnds, maxActions) ==
    IF roundEnds \/ gs.steps + 1 >= maxActions
    THEN [gs EXCEPT !.event = "RoundClosed", !.steps = gs.steps + 1]
    ELSE [gs EXCEPT !.event = "RoundStarted", !.cur = (gs.cur + 1) % Len(gs.bank),
                    !.steps = gs.steps + 1]

BackendMove(gs, roundEnds, maxActions) ==
    IF roundEnds \/ gs.steps + 1 >= maxActions
    THEN [gs EXCEPT !.event = "RoundClosed", !.cur = UnsetValue, !.steps = gs.steps + 1]
    ELSE [gs EXCEPT !.event = "RoundStarted", !.cur = (gs.cur + 1) % Len(gs.bank),
                    !.steps = gs.steps + 1]

\* the wager actions that make the player the raiser; an all-in does when it lifts the wager
RaiseMoves == {"bet", "raise"}

\* what the move leaves in the state a betting round goes on with: the player's
\* DidAction and Status.CurrentRaiser; the players' round status is dropped when the
\* round closes (nothing reads it then: there is no current player); Fold of a
\* player stays set to the end of the hand
BackendDid(gs, moved, action, raises) ==
    LET folded == [moved EXCEPT !.fold = IF action = "fold" THEN @ \cup {gs.cur} ELSE @]
    IN IF moved.event # "RoundStarted"
       THEN [folded EXCEPT !.did = [k \in 1 .. Len(gs.bank) |-> ""], !.raiser = UnsetValue]
       ELSE [folded EXCEPT !.did[gs.cur + 1] = action,
                           !.raiser = IF raises THEN gs.cur ELSE @]

\* the final bankrolls a hand may end with: nobody wins a chip, or a player wins
\* one chip from the next player
FinalsChoices(bank) ==
    {bank} \cup
    { [k \in 1 .. Len(bank) |->
        IF k = w THEN bank[k] + 1
        ELSE IF k = (w % Len(bank)) + 1 THEN bank[k] - 1 ELSE bank[k]] :
        w \in { x \in 1 .. Len(bank) : Len(bank) > 1 /\ bank[(x % Len(bank)) + 1] > 0 } }

\* Next after RoundClosed: the hand is over, Result.Players holds one row per player
BackendNext(gs, finals) == [gs EXCEPT !.event = "GameClosed", !.finals = finals]

----------------------------------------------------------------------------
(* The Game: state updates *)

\* g.updateGameState(gs): g.gs is replaced; the state is queued unless the Game is closed
gameUpdateGameState_Mutant(g, gs) ==
    LET state == [gs EXCEPT !.seq = g.nstored + 1, !.hand = g.hand]
    IN [g EXCEPT !.gs = state,
                 !.nstored = @ + 1,
                 !.incomingStates = IF g.isClosed THEN @ ELSE <<state>> \o @]

gameUpdateGameState(g, gs) ==
    LET state == [gs EXCEPT !.seq = g.nstored + 1, !.hand = g.hand]
    IN [g EXCEPT !.gs = state,
                 !.nstored = @ + 1,
                 !.incomingStates = IF g.isClosed THEN @ ELSE Append(@, state)]

\* the action the Game grants on the event it is handling
GrantedAction(event) ==
    IF event = "ReadyRequested" THEN "ready"
    ELSE IF event \in {"AnteRequested", "BlindsRequested"} THEN "pay" ELSE "none"

HasAction(gs, playerIdx, action) ==
    playerIdx \in gs.allow /\ action = GrantedAction(gs.event)

\* rg.OnCompleted of the ready group armed for ReadyRequested, AnteRequested or
\* BlindsRequested: g.ReadyForAll(), g.PayAnte() or g.PayBlinds()
rgCompleted_Mutant(g) ==
    LET next == IF g.gs.event = "ReadyRequested" THEN BackendReadyForAll(g.gs)
                ELSE IF g.gs.event = "AnteRequested" THEN BackendPayAnte(g.gs)
                ELSE BackendPayBlinds(g.gs)
    IN gameUpdateGameState([g EXCEPT !.nsteps = @ + 1], next)

rgCompleted(g) ==
    LET next == IF g.gs.event = "ReadyRequested" THEN BackendReadyForAll(g.gs)
                ELSE IF g.gs.event = "AnteRequested" THEN BackendPayAnte(g.gs)
                ELSE BackendPayBlinds(g.gs)
    IN gameUpdateGameState([g EXCEPT !.rg = [on |-> FALSE, waiting |-> {}],
                                     !.nsteps = @ + 1], next)

\* rg.Ready(playerIdx): unknown and already ready participants are ignored
rgReady(g, playerIdx) ==
    IF ~g.rg.on \/ playerIdx \notin g.rg.waiting THEN g
    ELSE IF g.rg.waiting = {playerIdx} THEN rgCompleted(g)
    ELSE [g EXCEPT !.rg.waiting = @ \ {playerIdx}]

\* the 17 s timeout of the Game's ready group: everybody is made ready
\* the callbacks of the completion run on the timer goroutine: PayAnte has stored
\* its state when OnAntesReceived is still to run (antesCb)
GameReadyTimeout ==
    /\ ~panicked
    /\ game.rg.on
    /\ game' = [rgCompleted(game) EXCEPT !.antesCb = @ \/ (game.gs.event = "AnteRequested")]
    /\ ret' = NoReturn
    /\ UNCHANGED <<table, sm, ogm, lock, pga, tgo, upd, task, isReleased, panicked, stg>>

\* the timer goroutine runs OnAntesReceived (game player action events) and returns
OnAntesReceived ==
    /\ ~panicked
    /\ game.antesCb
    /\ game' = [game EXCEPT !.antesCb = FALSE]
    /\ ret' = NoReturn
    /\ UNCHANGED <<table, sm, ogm, lock, pga, tgo, upd, task, isReleased, panicked, stg>>

----------------------------------------------------------------------------
(* tableGameOpen: commit and startGame *)

\* startGame reads playerSettings[0] and PlayerStates[playerIdx] of every game player
startGamePanics(t) ==
    \/ t.GamePlayerIndexes = <<>>
    \/ \E k \in 1 .. Len(t.GamePlayerIndexes) :
            t.GamePlayerIndexes[k] + 1 \notin 1 .. Len(t.PlayerStates)

\* te.table = newTable, the tableGameOpen event, and startGame up to game.Start()
tableGameOpen_Commit ==
    /\ ~panicked
    /\ tgo.pc = "commit"
    /\ table' = tgo.newTable
    /\ IF startGamePanics(tgo.newTable)
       THEN /\ panicked' = TRUE
            /\ ret' = [emitEvent(Return("tableGameOpen", "", Err_Panic)) EXCEPT
                          !.attempts = tgo.attempts, !.committed = TRUE]
            /\ UNCHANGED <<game, tgo, lock, pga>>
       ELSE \E created \in BOOLEAN :
            LET t == tgo.newTable
                bankrolls == [k \in 1 .. Len(t.GamePlayerIndexes) |->
                                 t.PlayerStates[t.GamePlayerIndexes[k] + 1].Bankroll]
                positions == [k \in 1 .. Len(t.GamePlayerIndexes) |->
                                 t.PlayerStates[t.GamePlayerIndexes[k] + 1].Positions
                                 \cup (IF k = 1 THEN {"dealer"} ELSE {})]
                newGame == [NoGame EXCEPT !.hand = game.hand + 1,
                                          !.startChips = TableChips(t)]
            IN /\ UNCHANGED panicked
               /\ IF created
                  THEN /\ game' = gameUpdateGameState(newGame, BackendCreateGame(bankrolls, positions, t.BlindState.Ante))
                       /\ tgo' = [tgo EXCEPT !.pc = "started"]
                       /\ ret' = [emitEvent(Return("startGame", "", Err_Nil)) EXCEPT
                                     !.attempts = tgo.attempts, !.committed = TRUE,
                                     !.backend = TRUE]
                       /\ UNCHANGED <<lock, pga>>
                  ELSE /\ game' = newGame
                       /\ tgo' = IdleFrame
                       /\ lock' = "none"
                       /\ UNCHANGED pga
                       /\ ret' = [emitEvent(Return("tableGameOpen", "", Err_CreateGame)) EXCEPT
                                     !.attempts = tgo.attempts, !.committed = TRUE,
                                     !.backend = TRUE]
    /\ UNCHANGED <<sm, ogm, upd, task, isReleased, stg>>

\* the end of startGame: Status = playing, and tableGameOpen returns nil
tableGameOpen_Finish ==
    /\ ~panicked
    /\ tgo.pc = "started"
    /\ table' = [table EXCEPT !.Status = Status_GamePlaying]
    /\ tgo' = IdleFrame
    /\ lock' = "none"
    /\ UNCHANGED pga
    /\ ret' = [Return("tableGameOpen", "", Err_Nil) EXCEPT
                  !.attempts = tgo.attempts, !.committed = TRUE, !.backend = TRUE]
    /\ UNCHANGED <<sm, ogm, game, upd, task, isReleased, panicked, stg>>

----------------------------------------------------------------------------
(* The Game's consumer goroutine: handleGameState and te.updateGameState *)

\* the players the ready group waits for on the event
rgParticipants(gs) ==
    IF gs.event \in {"ReadyRequested", "AnteRequested"} THEN { k - 1 : k \in 1 .. Len(gs.bank) }
    ELSE { k - 1 : k \in { j \in 1 .. Len(gs.pos) : gs.pos[j] \cap {"sb", "bb"} # {} } }

handleGameState_Mutant(g, gs, finals) ==
    IF gs.event \in {"ReadyRequested", "BlindsRequested"}
       \/ (gs.event = "AnteRequested" /\ gs.ante # 0)
    THEN LET granted == [gs EXCEPT !.allow = rgParticipants(gs)]
         IN [game |-> [g EXCEPT !.rg = [on |-> TRUE, waiting |-> rgParticipants(gs)],
                                !.narmed = @ + 1,
                                !.gs = IF g.gs = gs THEN granted ELSE g.gs],
             gs |-> granted]
    ELSE IF gs.event = "RoundClosed"
    THEN [game |-> gameUpdateGameState(g, BackendNext(gs, finals)), gs |-> gs]
    ELSE [game |-> g, gs |-> gs]

\* the handler of handleGameState for the event of gs; finals is what backend.Next
\* answers on RoundClosed. The result is the Game and gs as the handler leaves them
handleGameState(g, gs, finals) ==
    IF gs.event \in {"ReadyRequested", "BlindsRequested"}
       \/ (gs.event = "AnteRequested" /\ gs.ante # 0)
    THEN LET granted == [gs EXCEPT !.allow = rgParticipants(gs)]
         IN [game |-> [g EXCEPT !.rg = [on |-> TRUE, waiting |-> rgParticipants(gs)],
                                !.narmed = @ + 1,
                                !.gs = IF g.gs = gs THEN granted ELSE g.gs],
             gs |-> granted]
    ELSE IF gs.event = "RoundClosed"
    THEN [game |-> gameUpdateGameState(g, BackendNext(gs, finals)), gs |-> gs]
    ELSE IF gs.event = "GameClosed"
    THEN [game |-> IF g.isClosed THEN g
                   ELSE [g EXCEPT !.isClosed = TRUE, !.closes = @ + 1],
          gs |-> gs]
    ELSE [game |-> g, gs |-> gs]

storeGameState_Mutant(t, gs) == t

\* te.updateGameState: te.table.State.GameState = gs
storeGameState(t, gs) == [t EXCEPT !.GameState = gs]

----------------------------------------------------------------------------
(* The statistics of the hand: chances *)

GameRound_Preflop == "preflop"
GameRound_Flop == "flop"
GameStatisticRound_ThreeBet == "three-bet"
GameStatisticRound_Ft3B == "ft3b"
GameStatisticRound_CBet == "c-bet"
GameStatisticRound_FtCB == "ftcb"
preflopChances == {"vpip", "pfr", "ats", GameStatisticRound_ThreeBet, GameStatisticRound_Ft3B}
flopChances == {"check-raise", GameStatisticRound_CBet, GameStatisticRound_FtCB}

\* gs.Status.Round: the hand of the model has one betting round, the preflop
Round(gs) == IF gs.event \in {"RoundStarted", "RoundClosed"} THEN GameRound_Preflop ELSE ""

validateGameRoundChance(round, statisticRound) ==
    IF round = GameRound_Preflop THEN statisticRound \in preflopChances
    ELSE IF round = GameRound_Flop THEN statisticRound \in flopChances
    ELSE FALSE

\* validBackend: the event symbol and the AllowedActions of the state pass, which
\* is the backend's matter; the round is a betting round and the player has acted in it
validateGameStatisticGameState(gamePlayerIdx, gs, validBackend) ==
    /\ validBackend
    /\ Round(gs) \in {GameRound_Preflop, GameRound_Flop}
    /\ gs.did[gamePlayerIdx + 1] # ""

\* preflop, and exactly one other player raised or went all-in as the raiser
is3BChance(gamePlayerIdx, gs) ==
    LET others == { k \in 1 .. Len(gs.did) : k - 1 # gamePlayerIdx }
        allinRaiser == Cardinality({ k \in others : gs.did[k] = "allin" /\ gs.raiser = k - 1 })
        raiser == Cardinality({ k \in others : gs.did[k] = "raise" })
    IN /\ validateGameRoundChance(Round(gs), GameStatisticRound_ThreeBet)
       /\ \/ allinRaiser = 1 /\ raiser = 0
          \/ allinRaiser = 0 /\ raiser = 1

\* preflop, and another player holds the 3-Bet
IsFt3BChance(t, gamePlayerIdx, players, gs, validBackend) ==
    /\ validateGameStatisticGameState(gamePlayerIdx, gs, validBackend)
    /\ validateGameRoundChance(Round(gs), GameStatisticRound_Ft3B)
    /\ FindPlayerIndexFromGamePlayerIndex(t, gamePlayerIdx) # UnsetValue
    /\ \E i \in 1 .. Len(players) :
          /\ i - 1 # FindPlayerIndexFromGamePlayerIndex(t, gamePlayerIdx)
          /\ players[i].GameStatistics.Is3B

\* on the flop, the player is the raiser (and may still bet or raise: validBackend)
isCBetChance(gamePlayerIdx, gs, validBackend) ==
    /\ validateGameStatisticGameState(gamePlayerIdx, gs, validBackend)
    /\ validateGameRoundChance(Round(gs), GameStatisticRound_CBet)
    /\ gs.raiser = gamePlayerIdx

\* on the flop, and another player made the continuation bet
isFtCBChance(t, gamePlayerIdx, players, gs, validBackend) ==
    /\ validateGameStatisticGameState(gamePlayerIdx, gs, validBackend)
    /\ validateGameRoundChance(Round(gs), GameStatisticRound_FtCB)
    /\ FindPlayerIndexFromGamePlayerIndex(t, gamePlayerIdx) # UnsetValue
    /\ \E i \in 1 .. Len(players) :
          /\ i - 1 # FindPlayerIndexFromGamePlayerIndex(t, gamePlayerIdx)
          /\ players[i].GameStatistics.IsCBet

\* the chance flags of the current player of gs are raised, never lowered
updateCurrentPlayerGameStatistics(t, gs, validBackend) ==
    LET currentGamePlayerIdx == gs.cur
        currentPlayerIdx == FindPlayerIndexFromGamePlayerIndex(t, currentGamePlayerIdx)
    IN IF currentPlayerIdx = UnsetValue \/ currentPlayerIdx + 1 \notin 1 .. Len(t.PlayerStates)
       THEN t
       ELSE [t EXCEPT !.PlayerStates[currentPlayerIdx + 1].GameStatistics =
                [@ EXCEPT
                   !.Is3BChance = @ \/ is3BChance(currentGamePlayerIdx, gs),
                   !.IsFt3BChance = @ \/ IsFt3BChance(t, currentGamePlayerIdx, t.PlayerStates, gs, validBackend),
                   !.IsCBetChance = @ \/ isCBetChance(currentGamePlayerIdx, gs, validBackend),
                   !.IsFtCBChance = @ \/ isFtCBChance(t, currentGamePlayerIdx, t.PlayerStates, gs, validBackend)]]

\* one state is taken from incomingStates: its handler runs, then te.updateGameState
\* stores it in the Table and reads Status to decide whether statistics (te.lock) follow
GameStateUpdater ==
    /\ ~panicked
    /\ upd.pc = "idle"
    /\ game.incomingStates # <<>>
    /\ LET gs == Head(game.incomingStates)
           g == [game EXCEPT !.incomingStates = Tail(@), !.nhandled = @ + 1]
       IN \E finals \in (IF gs.event = "RoundClosed" THEN FinalsChoices(gs.bank) ELSE {<<>>}) :
             LET h == handleGameState(g, gs, finals)
             IN /\ game' = h.game
                /\ table' = storeGameState(table, h.gs)
                /\ upd' = [pc |-> IF table.Status = Status_GamePlaying THEN "statistics" ELSE "event",
                           gs |-> h.gs, alive |-> {}]
    /\ ret' = NoReturn
    /\ UNCHANGED <<sm, ogm, lock, pga, tgo, task, isReleased, panicked, stg>>

\* settleGame runs into a nil GameState or Result, or into an index out of range
settleRowPanics(t, k) ==
    \/ k > Len(t.GamePlayerIndexes)
    \/ t.GamePlayerIndexes[k] + 1 \notin 1 .. Len(t.PlayerStates)

settleGamePanics(t) ==
    \/ t.GameState.event # "GameClosed"
    \/ \E k \in 1 .. Len(t.GameState.finals) : settleRowPanics(t, k)

\* the rows of Result.Players settleGame gets through
settledRows(t) ==
    IF t.GameState.event # "GameClosed" THEN {}
    ELSE { k \in 1 .. Len(t.GameState.finals) : \A j \in 1 .. k : ~settleRowPanics(t, j) }

\* refreshNextBBOrderPlayerIDs: the players with chips in seat order after the BB
refreshNextBBOrderPlayerIDs(currentBBSeatID, tableMaxSeatCount, players, seatMap) ==
    LET ring == [k \in 1 .. tableMaxSeatCount |-> (currentBBSeatID + k) % tableMaxSeatCount]
        hasChipsAt(x) == /\ seatMap[x] >= 0
                         /\ seatMap[x] < Len(players)
                         /\ players[seatMap[x] + 1].Bankroll > 0
        seats == SelectSeq(ring, hasChipsAt)
    IN [k \in 1 .. Len(seats) |-> players[seatMap[seats[k]] + 1].PlayerID]

\* the game players of gs that did not fold
notFolded(gs) == { k - 1 : k \in 1 .. Len(gs.bank) } \ gs.fold

\* rank.GetWinners() after the not-folded players were added with their power: the
\* players whose power ties for the best
RankWinners(gs) == IF notFolded(gs) = {} THEN {{}} ELSE (SUBSET notFolded(gs)) \ {{}}

showdownStatistics_Mutant(stats, notFold, notFoldCount, isWinner) ==
    IF notFold /\ notFoldCount > 1
    THEN [stats EXCEPT !.ShowdownWinningChance = TRUE, !.IsShowdownWinning = TRUE]
    ELSE [stats EXCEPT !.ShowdownWinningChance = FALSE]

\* the showdown statistics settleGame writes for the player of a result row
showdownStatistics(stats, notFold, notFoldCount, isWinner) ==
    IF notFold /\ notFoldCount > 1
    THEN [stats EXCEPT !.ShowdownWinningChance = TRUE,
                       !.IsShowdownWinning = IF isWinner THEN TRUE ELSE @]
    ELSE [stats EXCEPT !.ShowdownWinningChance = FALSE]

\* settleGame: Status, the bankrolls and showdown statistics of the result rows and,
\* when the loop got through, the BB order; winners is what rank.GetWinners() returned
settleGame(t, s, winners) ==
    LET rows == settledRows(t)
        rowOf(i) == CHOOSE k \in rows : t.GamePlayerIndexes[k] = i - 1
        gs == t.GameState
        notFoldCount == Cardinality({ k \in 1 .. Len(gs.finals) : (k - 1) \in notFolded(gs) })
        winnerPlayerIndexes ==
            { FindPlayerIndexFromGamePlayerIndex(t, w) : w \in winners } \ {UnsetValue}
        newPlayerStates ==
            [i \in 1 .. Len(t.PlayerStates) |->
                IF \E k \in rows : t.GamePlayerIndexes[k] = i - 1
                THEN [t.PlayerStates[i] EXCEPT
                        !.Bankroll = gs.finals[rowOf(i)],
                        !.GameStatistics =
                            showdownStatistics(@, (rowOf(i) - 1) \in notFolded(gs),
                                               notFoldCount, (i - 1) \in winnerPlayerIndexes)]
                ELSE t.PlayerStates[i]]
    IN [t EXCEPT !.Status = Status_GameSettled,
                 !.PlayerStates = newPlayerStates,
                 !.NextBBOrderPlayerIDs =
                    IF settleGamePanics(t) THEN @
                    ELSE refreshNextBBOrderPlayerIDs(s.bb, TableMaxSeatCount,
                                                     newPlayerStates, t.SeatMap)]

\* alivePlayers of settleGame: the players of the rows with chips left
settleAlivePlayers(t) ==
    { t.PlayerStates[t.GamePlayerIndexes[k] + 1].PlayerID :
        k \in { j \in settledRows(t) : t.GameState.finals[j] > 0 } }

\* the rest of te.updateGameState for the state taken: statistics under te.lock when
\* the status read was playing, then onGameClosed -> settleGame, or the update events
TableUpdateGameState ==
    /\ ~panicked
    /\ upd.pc \in {"statistics", "event"}
    /\ upd.pc = "statistics" => lock = "none"
    /\ \E validBackend \in (IF upd.pc = "statistics" /\ upd.gs.cur # UnsetValue
                             THEN BOOLEAN ELSE {FALSE}),
          winners \in (IF upd.gs.event = "GameClosed" /\ table.GameState.event = "GameClosed"
                       THEN RankWinners(table.GameState) ELSE {{}}) :
       LET counted == IF upd.pc = "statistics"
                      THEN updateCurrentPlayerGameStatistics(table, upd.gs, validBackend)
                      ELSE table
       IN IF upd.gs.event = "GameClosed"
          THEN /\ table' = settleGame(counted, sm, winners)
               /\ IF settleGamePanics(counted)
                  THEN /\ panicked' = TRUE
                       /\ ret' = Return("settleGame", "", Err_Panic)
                       /\ UNCHANGED upd
                  ELSE /\ upd' = [pc |-> "settled", gs |-> upd.gs, alive |-> settleAlivePlayers(counted)]
                       /\ ret' = [emitEvent(Return("settleGame", "", Err_Nil)) EXCEPT
                                     !.winners = winners]
                       /\ UNCHANGED panicked
          ELSE /\ table' = IF upd.gs.event = "RoundClosed"
                           THEN [counted EXCEPT !.LastPlayerGameAction = NilAction]
                           ELSE counted
               /\ upd' = IdleUpdater
               /\ ret' = emitEvent(NoReturn)
               /\ UNCHANGED panicked
    /\ UNCHANGED <<sm, ogm, game, lock, pga, tgo, task, isReleased, stg>>

ctMTTAutoGameOpenEnd_Mutant(t, timeIsUp) == timeIsUp

\* ctMTTAutoGameOpenEnd of continueGame: the table time of a CT or Cash table is up;
\* timeIsUp is time.Now().Unix() > StartAt + MaxDuration
ctMTTAutoGameOpenEnd(t, timeIsUp) ==
    t.Mode \in {CompetitionMode_CT, CompetitionMode_Cash} /\ timeIsUp

\* continueGame up to te.delay: the table is reset and the continuation scheduled
wgDone_Mutant(tk, isCancelled) ==
    [NoTask EXCEPT !.calls = tk.calls, !.runs = tk.runs + 1, !.cancels = tk.cancels]

\* the callback te.delay hands to the time bank has run, with isCancelled or to run
\* the handler: wg.Done releases the delay call that scheduled it
wgDone(tk, isCancelled) ==
    [NoTask EXCEPT !.calls = tk.calls,
                   !.runs = IF isCancelled THEN tk.runs ELSE tk.runs + 1,
                   !.cancels = IF isCancelled THEN tk.cancels + 1 ELSE tk.cancels]

\* tbForOpenGame.NewTask: a task still pending is cancelled, its callback runs with
\* isCancelled true and only releases its delay call
NewTask(tk) == IF tk.pending THEN wgDone(tk, TRUE) ELSE tk

continueGame ==
    /\ ~panicked
    /\ upd.pc = "settled"
    /\ LET hasChips == { table.PlayerStates[i].PlayerID :
                            i \in { j \in 1 .. Len(table.PlayerStates) :
                                        table.PlayerStates[j].Bankroll > 0 } }
           noChips == { table.PlayerStates[i].PlayerID : i \in 1 .. Len(table.PlayerStates) }
                      \ hasChips
           sm1 == [sm EXCEPT !.hasChips = (@ \cup hasChips) \ noChips]
       IN /\ sm' = sm1
          /\ table' = [table EXCEPT
                !.Status = Status_Standby,
                !.GamePlayerIndexes = <<>>,
                !.NextBBOrderPlayerIDs = <<>>,
                !.GameState = NilGameState,
                !.LastPlayerGameAction = NilAction,
                !.PlayerStates =
                    [i \in 1 .. Len(table.PlayerStates) |->
                        [table.PlayerStates[i] EXCEPT
                            !.Positions = {},
                            !.GameStatistics = NewPlayerGameStatistics,
                            !.IsParticipated =
                                SmIsPlayerActive(sm1, table.PlayerStates[i].PlayerID)]]]
    /\ \E timeIsUp \in BOOLEAN :
          task' = [pending |-> TRUE, alive |-> upd.alive,
                   expired |-> ctMTTAutoGameOpenEnd(table, timeIsUp),
                   released |-> isReleased \/ table.Status = Status_Closed,
                   calls |-> task.calls + 1,
                   runs |-> task.runs,
                   cancels |-> NewTask(task).cancels]
    /\ upd' = IdleUpdater
    /\ ret' = NoReturn
    /\ UNCHANGED <<ogm, game, lock, pga, tgo, isReleased, panicked, stg>>

shouldAutoGameOpen_Mutant(t) ==
    t.Status = Status_Standby /\ Cardinality(AlivePlayers(t)) > TableMinPlayerCount

shouldAutoGameOpen(t) ==
    t.Status = Status_Standby /\ Cardinality(AlivePlayers(t)) >= TableMinPlayerCount

\* the task scheduled by te.delay fires: nextMoveHandler. expired tells which of the
\* two handlers continueGame scheduled: the one of a table whose time is up only
\* reports onAutoGameOpenEnd
ContinuationTask(expired) ==
    /\ ~panicked
    /\ task.pending
    /\ expired = task.expired
    /\ task' = wgDone(task, FALSE)
    /\ IF expired
       THEN /\ ret' = [Return("continuation", "", Err_Nil) EXCEPT !.autoEnd = 1]
            /\ UNCHANGED <<table, ogm>>
       ELSE IF table.Status = Status_Closed \/ isReleased
       THEN /\ ret' = Return("continuation", "", Err_Nil)
            /\ UNCHANGED <<table, ogm>>
       ELSE IF ShouldPause(table)
       THEN /\ table' = [table EXCEPT !.Status = Status_Pausing]
            /\ ret' = [emitEvent(Return("continuation", "", Err_Nil)) EXCEPT
                          !.statusUpdated = TRUE]
            /\ UNCHANGED ogm
       ELSE IF shouldAutoGameOpen(table)
       THEN /\ ogm' = [armed |-> TRUE, parts |-> task.alive, ready |-> {}]
            /\ ret' = [Return("continuation", "", Err_Nil) EXCEPT !.setup = TRUE]
            /\ UNCHANGED table
       ELSE /\ ret' = Return("continuation", "", Err_Nil)
            /\ UNCHANGED <<table, ogm>>
    /\ UNCHANGED <<sm, game, lock, pga, tgo, upd, isReleased, panicked, stg>>

----------------------------------------------------------------------------
(* The nine player game actions *)

ReadyGroupActions == {"ready", "pay"}
PlayMoves == {"bet", "raise", "call", "allin", "check", "fold", "pass"}

validateGameMove(t, gamePlayerIdx) ==
    IF t.Status # Status_GamePlaying THEN Err_InvalidGameAction
    ELSE IF gamePlayerIdx = UnsetValue THEN Err_PlayerNotFound
    ELSE Err_Nil

\* g.gs.GetPlayer(playerIdx) == nil
gameGetPlayerNil(gs, playerIdx) == playerIdx < 0 \/ playerIdx >= Len(gs.bank)

validatePlayMove_Mutant(gs, playerIdx) ==
    IF gameGetPlayerNil(gs, playerIdx) THEN Err_GamePlayerNotFound ELSE Err_Nil

validatePlayMove(gs, playerIdx) ==
    IF gameGetPlayerNil(gs, playerIdx) THEN Err_GamePlayerNotFound
    ELSE IF gs.cur # playerIdx THEN Err_GameInvalidAction
    ELSE Err_Nil

validateActionMove(gs, playerIdx, action) ==
    IF gameGetPlayerNil(gs, playerIdx) THEN Err_GamePlayerNotFound
    ELSE IF ~HasAction(gs, playerIdx, action) THEN Err_GameInvalidAction
    ELSE Err_Nil

payToReadyGroup_Mutant(gs) == FALSE

\* game.Pay on AnteRequested and BlindsRequested: the call goes to the ready group
payToReadyGroup(gs) == gs.event \in {"AnteRequested", "BlindsRequested"}

\* the Game method of the action ends in g.rg.Ready, not in a call of the backend
viaReadyGroup(gs, action) == action = "ready" \/ (action = "pay" /\ payToReadyGroup(gs))

\* what the Game method for the action answers before it touches anything
gameValidate(gs, playerIdx, action) ==
    IF action \in ReadyGroupActions
    THEN validateActionMove(gs, playerIdx, action)
    ELSE validatePlayMove(gs, playerIdx)

\* the statistics the handler of the action updates once the Game accepted it
updatedStatistics(stats, action) ==
    [stats EXCEPT !.ActionTimes = IF action \in {"ready", "pay", "pass"} THEN @ ELSE @ + 1,
                  !.IsFold = IF action = "fold" THEN TRUE ELSE @]

\* refreshThreeBet: a held 3-Bet is taken from everybody, and the player with the
\* chance becomes the only holder
refreshThreeBet_Mutant(players, playerIdx) ==
    IF players[playerIdx + 1].GameStatistics.Is3BChance
    THEN [players EXCEPT ![playerIdx + 1].GameStatistics.Is3B = TRUE]
    ELSE players

refreshThreeBet(players, playerIdx) ==
    LET cleared == IF \E i \in 1 .. Len(players) : players[i].GameStatistics.Is3B
                   THEN [i \in 1 .. Len(players) |->
                            [players[i] EXCEPT !.GameStatistics.Is3B = FALSE]]
                   ELSE players
    IN IF players[playerIdx + 1].GameStatistics.Is3BChance
       THEN [i \in 1 .. Len(players) |->
                [cleared[i] EXCEPT !.GameStatistics.Is3B = (i = playerIdx + 1)]]
       ELSE cleared

\* the statistics of the players once the Game accepted the action of playerIdx;
\* isRaiser: the player is Status.CurrentRaiser of the Game's state after the move
playerActionStatistics(players, playerIdx, action, isRaiser) ==
    LET counted == [players EXCEPT ![playerIdx + 1].GameStatistics = updatedStatistics(@, action)]
        threeBet == IF action = "raise" \/ (action = "allin" /\ isRaiser)
                    THEN refreshThreeBet(counted, playerIdx)
                    ELSE counted
        chances == threeBet[playerIdx + 1].GameStatistics
    IN [threeBet EXCEPT ![playerIdx + 1].GameStatistics =
          [@ EXCEPT !.IsCBet = @ \/ (action \in {"bet", "raise", "allin"} /\ chances.IsCBetChance),
                    !.IsFt3B = @ \/ (action = "fold" /\ chances.IsFt3BChance),
                    !.IsFtCB = @ \/ (action = "fold" /\ chances.IsFt3BChance)]]

\* Player<Action>(playerID), under te.lock; roundEnds is the backend's answer to a move,
\* raises whether it lifts the wager, maxActions the moves a betting round may last
PlayerGameActionWithin(playerID, action, maxActions) ==
    /\ ~panicked
    /\ lock = "none"
    /\ IF FindGamePlayerIdxPanics(table, playerID)
       THEN /\ panicked' = TRUE
            /\ ret' = Return(action, playerID, Err_Panic)
            /\ UNCHANGED <<table, game>>
       ELSE
       LET gamePlayerIdx == FindGamePlayerIdx(table, playerID)
           moveErr == validateGameMove(table, gamePlayerIdx)
           playerIdx == FindPlayerIndexFromGamePlayerIndex(table, gamePlayerIdx)
           gameErr == gameValidate(game.gs, gamePlayerIdx, action)
       IN /\ UNCHANGED panicked
          /\ IF moveErr # Err_Nil
             THEN /\ ret' = Return(action, playerID, moveErr)
                  /\ UNCHANGED <<table, game>>
             ELSE IF gameErr # Err_Nil
             THEN /\ ret' = Return(action, playerID, gameErr)
                  /\ UNCHANGED <<table, game>>
             ELSE /\ \E roundEnds \in (IF action \in PlayMoves THEN BOOLEAN ELSE {FALSE}),
                        raises \in (IF action = "allin" THEN BOOLEAN ELSE {action \in RaiseMoves}) :
                        /\ game' = IF viaReadyGroup(game.gs, action)
                                   THEN rgReady(game, gamePlayerIdx)
                                   ELSE gameUpdateGameState(game,
                                            BackendDid(game.gs, BackendMove(game.gs, roundEnds, maxActions),
                                                       action, raises))
                        /\ table' = [table EXCEPT
                              !.LastPlayerGameAction = [PlayerID |-> playerID, Action |-> action],
                              !.PlayerStates = playerActionStatistics(@, playerIdx, action,
                                                   raises \/ game.gs.raiser = gamePlayerIdx)]
                        /\ ret' = [Return(action, playerID, Err_Nil) EXCEPT
                                      !.backend = ~viaReadyGroup(game.gs, action),
                                      !.asRaiser = raises \/ game.gs.raiser = gamePlayerIdx]
    /\ UNCHANGED <<sm, ogm, lock, pga, tgo, upd, task, isReleased, stg>>

PlayerGameAction(playerID, action) == PlayerGameActionWithin(playerID, action, MaxHandActions)

\* the same handlers in two steps, for what the goroutines that do not take te.lock
\* do in between. First step: te.lock is taken, the move is validated and the Game
\* method is called; the handler holds te.lock when the Game accepted the move
PlayerGameAction_Call(playerID, action, maxActions) ==
    /\ ~panicked
    /\ lock = "none"
    /\ IF FindGamePlayerIdxPanics(table, playerID)
       THEN /\ panicked' = TRUE
            /\ ret' = Return(action, playerID, Err_Panic)
            /\ UNCHANGED <<game, lock, pga>>
       ELSE
       LET gamePlayerIdx == FindGamePlayerIdx(table, playerID)
           moveErr == validateGameMove(table, gamePlayerIdx)
           playerIdx == FindPlayerIndexFromGamePlayerIndex(table, gamePlayerIdx)
           gameErr == gameValidate(game.gs, gamePlayerIdx, action)
       IN /\ UNCHANGED panicked
          /\ IF moveErr # Err_Nil
             THEN /\ ret' = Return(action, playerID, moveErr)
                  /\ UNCHANGED <<game, lock, pga>>
             ELSE IF gameErr # Err_Nil
             THEN /\ ret' = Return(action, playerID, gameErr)
                  /\ UNCHANGED <<game, lock, pga>>
             ELSE /\ \E roundEnds \in (IF action \in PlayMoves THEN BOOLEAN ELSE {FALSE}),
                        raises \in (IF action = "allin" THEN BOOLEAN ELSE {action \in RaiseMoves}) :
                        /\ game' = IF viaReadyGroup(game.gs, action)
                                   THEN rgReady(game, gamePlayerIdx)
                                   ELSE gameUpdateGameState(game,
                                            BackendDid(game.gs, BackendMove(game.gs, roundEnds, maxActions),
                                                       action, raises))
                        /\ pga' = [pc |-> "called", playerID |-> playerID, action |-> action,
                                   playerIdx |-> playerIdx,
                                   isRaiser |-> raises \/ game.gs.raiser = gamePlayerIdx]
                  /\ lock' = "action"
                  /\ ret' = [NoReturn EXCEPT !.op = "gameCall", !.pid = playerID,
                                             !.backend = ~viaReadyGroup(game.gs, action)]
    /\ UNCHANGED <<table, sm, ogm, tgo, upd, task, isReleased, stg>>

\* second step: LastPlayerGameAction and the statistics are written, te.lock is released
PlayerGameAction_Record ==
    /\ ~panicked
    /\ pga.pc = "called"
    /\ IF pga.playerIdx + 1 \notin 1 .. Len(table.PlayerStates)
       THEN /\ panicked' = TRUE
            /\ ret' = Return(pga.action, pga.playerID, Err_Panic)
            /\ UNCHANGED <<table, lock, pga>>
       ELSE /\ table' = [table EXCEPT
                  !.LastPlayerGameAction = [PlayerID |-> pga.playerID, Action |-> pga.action],
                  !.PlayerStates = playerActionStatistics(@, pga.playerIdx, pga.action, pga.isRaiser)]
            /\ lock' = "none"
            /\ pga' = NoAct
            /\ ret' = [Return(pga.action, pga.playerID, Err_Nil) EXCEPT
                          !.backend = pga.action \in PlayMoves, !.asRaiser = pga.isRaiser]
            /\ UNCHANGED panicked
    /\ UNCHANGED <<sm, ogm, game, tgo, upd, task, isReleased, stg>>

PlayerReady(playerID) == PlayerGameAction(playerID, "ready")
PlayerPay(playerID) == PlayerGameAction(playerID, "pay")
PlayerBet(playerID) == PlayerGameAction(playerID, "bet")
PlayerRaise(playerID) == PlayerGameAction(playerID, "raise")
PlayerCall(playerID) == PlayerGameAction(playerID, "call")
PlayerAllin(playerID) == PlayerGameAction(playerID, "allin")
PlayerCheck(playerID) == PlayerGameAction(playerID, "check")
PlayerFold(playerID) == PlayerGameAction(playerID, "fold")
PlayerPass(playerID) == PlayerGameAction(playerID, "pass")

----------------------------------------------------------------------------
(* The specification *)

\* participant maps callers pass to SetUpTableGame
ParticipantInputs == { {"A"}, PlayerIDs }

\* JoinPlayer arguments of PlayerReserve and PlayerRedeemChips
ReserveInputs == [PlayerID : PlayerIDs, Seat : {UnsetValue, 1}, RedeemChips : {0, 1}]

\* joinPlayers arguments of UpdateTablePlayers
JoinLists ==
    LET C1 == [PlayerID |-> "C", RedeemChips |-> 1, Seat |-> 1]
        CAny == [PlayerID |-> "C", RedeemChips |-> 1, Seat |-> UnsetValue]
        B1 == [PlayerID |-> "B", RedeemChips |-> 1, Seat |-> 1]
    IN { <<>>, <<C1>>, <<CAny>>, <<B1>>, <<C1, C1>> }

\* leavePlayerIDs arguments of UpdateTablePlayers
LeaveInputs == {{}} \cup { {p} : p \in PlayerIDs }

Next ==
    \/ \E p \in PlayerIDs : PlayerJoin(p)
    \/ PlayersAutoIn
    \/ PauseTable
    \/ CloseTable
    \/ \E blind \in BlindInputs : UpdateBlind(blind)
    \/ \E parts \in ParticipantInputs : SetUpTableGame(parts)
    \/ \E p \in PlayerIDs : PlayersLeave({p})
    \/ \E joinPlayers \in JoinLists, leave \in LeaveInputs : UpdateTablePlayers(joinPlayers, leave)
    \/ \E joinPlayer \in ReserveInputs : PlayerReserve(joinPlayer)
    \/ \E joinPlayer \in ReserveInputs : PlayerRedeemChips(joinPlayer)
    \/ OnOpenGameReady
    \/ tableGameOpen_Begin
    \/ tableGameOpen_Retry
    \/ tableGameOpen_Commit
    \/ tableGameOpen_Finish
    \/ GameReadyTimeout
    \/ OnAntesReceived
    \/ GameStateUpdater
    \/ TableUpdateGameState
    \/ continueGame
    \/ \E expired \in BOOLEAN : ContinuationTask(expired)
    \/ \E p \in PlayerIDs : PlayerReady(p)
    \/ \E p \in PlayerIDs : PlayerPay(p)
    \/ \E p \in PlayerIDs : PlayerBet(p)
    \/ \E p \in PlayerIDs : PlayerRaise(p)
    \/ \E p \in PlayerIDs : PlayerCall(p)
    \/ \E p \in PlayerIDs : PlayerAllin(p)
    \/ \E p \in PlayerIDs : PlayerCheck(p)
    \/ \E p \in PlayerIDs : PlayerFold(p)
    \/ \E p \in PlayerIDs : PlayerPass(p)

Spec == Init /\ [][Next]_vars

\* the opening of hands: tableGameOpen with its retries against the calls that run
\* without te.lock, and hands played to the end by folds and timeouts
NextOpen ==
    \/ \E p \in PlayerIDs : PlayerJoin(p)
    \/ PauseTable
    \/ CloseTable
    \/ \E blind \in BlindInputs : UpdateBlind(blind)
    \/ \E parts \in ParticipantInputs : SetUpTableGame(parts)
    \/ OnOpenGameReady
    \/ tableGameOpen_Begin
    \/ tableGameOpen_Retry
    \/ tableGameOpen_Commit
    \/ tableGameOpen_Finish
    \/ GameReadyTimeout
    \/ GameStateUpdater
    \/ TableUpdateGameState
    \/ continueGame
    \/ \E expired \in BOOLEAN : ContinuationTask(expired)
    \/ \E p \in PlayerIDs : PlayerFold(p)

SpecOpen == Init /\ [][NextOpen]_vars

\* hands with players leaving while they run
NextHand ==
    \/ PlayersAutoIn
    \/ PauseTable
    \/ \E parts \in ParticipantInputs : SetUpTableGame(parts)
    \/ \E p \in PlayerIDs : PlayersLeave({p})
    \/ \E p \in PlayerIDs : UpdateTablePlayers(<<>>, {p})
    \/ OnOpenGameReady
    \/ tableGameOpen_Begin
    \/ tableGameOpen_Retry
    \/ tableGameOpen_Commit
    \/ tableGameOpen_Finish
    \/ GameReadyTimeout
    \/ GameStateUpdater
    \/ TableUpdateGameState
    \/ continueGame
    \/ \E expired \in BOOLEAN : ContinuationTask(expired)
    \/ \E p \in PlayerIDs : PlayerReady(p)
    \/ \E p \in PlayerIDs : PlayerPay(p)
    \/ \E p \in PlayerIDs : PlayerCall(p)
    \/ \E p \in PlayerIDs : PlayerFold(p)

\* the table of the default setting: blind level 1
InitDefault == Init /\ IsSet(table.BlindState) /\ ~IsBreaking(table.BlindState)

SpecHand == InitDefault /\ [][NextHand]_vars

\* the nine player game actions in every phase of a hand
NextAction ==
    \/ PlayersAutoIn
    \/ SetUpTableGame(PlayerIDs)
    \/ \E p \in {"B"} : PlayersLeave({p})
    \/ OnOpenGameReady
    \/ tableGameOpen_Begin
    \/ tableGameOpen_Retry
    \/ tableGameOpen_Commit
    \/ tableGameOpen_Finish
    \/ GameReadyTimeout
    \/ GameStateUpdater
    \/ TableUpdateGameState
    \/ continueGame
    \/ \E expired \in BOOLEAN : ContinuationTask(expired)
    \/ \E p \in PlayerIDs : PlayerReady(p)
    \/ \E p \in PlayerIDs : PlayerPay(p)
    \/ \E p \in PlayerIDs : PlayerBet(p)
    \/ \E p \in PlayerIDs : PlayerRaise(p)
    \/ \E p \in PlayerIDs : PlayerCall(p)
    \/ \E p \in PlayerIDs : PlayerAllin(p)
    \/ \E p \in PlayerIDs : PlayerCheck(p)
    \/ \E p \in PlayerIDs : PlayerFold(p)
    \/ \E p \in PlayerIDs : PlayerPass(p)

SpecAction == InitDefault /\ [][NextAction]_vars

\* the seats of the table: players reserve, join and leave while hands are opened
NextSeats ==
    \/ PlayersAutoIn
    \/ \E parts \in ParticipantInputs : SetUpTableGame(parts)
    \/ \E p \in {"B", "C"} : PlayersLeave({p})
    \/ \E joinPlayers \in JoinLists, leave \in {{}, {"C"}} : UpdateTablePlayers(joinPlayers, leave)
    \/ \E seat \in {UnsetValue, 0, 1} : PlayerReserve([PlayerID |-> "C", RedeemChips |-> 0, Seat |-> seat])
    \/ OnOpenGameReady
    \/ tableGameOpen_Begin
    \/ tableGameOpen_Retry
    \/ tableGameOpen_Commit
    \/ tableGameOpen_Finish

SpecSeats == InitDefault /\ [][NextSeats]_vars

\* the continuation of two hands: the second hand is set up from outside while the
\* task of the first may still be pending
NextDelay ==
    \/ PlayersAutoIn
    \/ PauseTable
    \/ SetUpTableGame(PlayerIDs)
    \/ OnOpenGameReady
    \/ tableGameOpenBegin(MaxGameCount + 1)
    \/ tableGameOpenRetry(MaxGameCount + 1)
    \/ tableGameOpen_Commit
    \/ tableGameOpen_Finish
    \/ GameReadyTimeout
    \/ GameStateUpdater
    \/ TableUpdateGameState
    \/ continueGame
    \/ \E expired \in BOOLEAN : ContinuationTask(expired)
    \/ \E p \in PlayerIDs : PlayerFold(p)

SpecDelay == InitDefault /\ [][NextDelay]_vars

\* the time bank runs a task that stays pending once its interval is over
SpecDelayFair == SpecDelay /\ WF_vars(\E expired \in BOOLEAN : ContinuationTask(expired))

\* JoinPlayer arguments of the rebuys of the seated player
ChipInputs(playerID) ==
    { joinPlayer \in ReserveInputs : joinPlayer.PlayerID = playerID /\ joinPlayer.Seat = UnsetValue }

\* the chips of the table: buy-ins, rebuys and redeemed chips around hands that are
\* played to the end by timeouts and folds
NextChips ==
    \/ PlayersAutoIn
    \/ \E parts \in ParticipantInputs : SetUpTableGame(parts)
    \/ \E joinPlayer \in ChipInputs("B") : PlayerReserve(joinPlayer)
    \/ \E joinPlayer \in ChipInputs("A") : PlayerRedeemChips(joinPlayer)
    \/ OnOpenGameReady
    \/ tableGameOpenBegin(MaxGameCount + 1)
    \/ tableGameOpenRetry(MaxGameCount + 1)
    \/ tableGameOpen_Commit
    \/ tableGameOpen_Finish
    \/ GameReadyTimeout
    \/ GameStateUpdater
    \/ TableUpdateGameState
    \/ continueGame
    \/ \E expired \in BOOLEAN : ContinuationTask(expired)
    \/ \E p \in {"A", "B"} : PlayerFold(p)

SpecChips == InitDefault /\ [][NextChips]_vars

\* the table of the default setting in the given mode
InitIn(mode, blind) ==
    /\ table = CreateTableIn(mode, blind)
    /\ sm = SmAssignSeats(NewSeatManager, JoinPlayers)
    /\ ogm = [armed |-> FALSE, parts |-> {}, ready |-> {}]
    /\ game = NoGame
    /\ lock = "none"
    /\ pga = NoAct
    /\ tgo = IdleFrame
    /\ upd = IdleUpdater
    /\ task = NoTask
    /\ isReleased = FALSE
    /\ panicked = FALSE
    /\ stg = NoStart
    /\ ret = NoReturn

InitModes == \E mode \in CompetitionModes : InitIn(mode, [Level |-> 1, Ante |-> 0, SB |-> 1, BB |-> 2])

\* the blind levels UpdateBlind moves between while hands are played
BreakInputs == { [Level |-> 1, Ante |-> 0, SB |-> 1, BB |-> 2],
                 [Level |-> -1, Ante |-> 0, SB |-> 1, BB |-> 2] }

\* a hand and its continuation, with the calls that end or pause the auto-open loop
NextContinue ==
    \/ PlayersAutoIn
    \/ PauseTable
    \/ CloseTable
    \/ ReleaseTable
    \/ \E blind \in BreakInputs : UpdateBlind(blind)
    \/ SetUpTableGame(PlayerIDs)
    \/ OnOpenGameReady
    \/ tableGameOpen_Begin
    \/ tableGameOpen_Retry
    \/ tableGameOpen_Commit
    \/ tableGameOpen_Finish
    \/ GameReadyTimeout
    \/ GameStateUpdater
    \/ TableUpdateGameState
    \/ continueGame
    \/ \E expired \in BOOLEAN : ContinuationTask(expired)
    \/ \E p \in PlayerIDs : PlayerFold(p)

SpecContinue == InitModes /\ [][NextContinue]_vars

\* the first hand of the table: the players join and the table of an MTT starts itself
\* while the collaborator calls StartTableGame
NextStart ==
    \/ \E playerID \in PlayerIDs : PlayerJoin(playerID)
    \/ PlayersAutoIn
    \/ StartTableGame
    \/ \E now \in StartTimes : StartTableGame_Write(now)
    \/ PauseTable
    \/ \E parts \in ParticipantInputs : SetUpTableGame(parts)
    \/ OnOpenGameReady
    \/ tableGameOpenBegin(MaxGameCount)
    \/ tableGameOpenRetry(MaxGameCount)
    \/ tableGameOpen_Commit
    \/ tableGameOpen_Finish

SpecStart == InitModes /\ [][NextStart]_vars

\* the acknowledgements of a settlement around the opening of a hand
NextFinish ==
    \/ PlayersAutoIn
    \/ \E parts \in ParticipantInputs : SetUpTableGame(parts)
    \/ \E p \in PlayerIDs : PlayerSettlementFinish(p)
    \/ \E p \in PlayerIDs : PlayersLeave({p})
    \/ OnOpenGameReady
    \/ tableGameOpen_Begin
    \/ tableGameOpen_Retry
    \/ tableGameOpen_Commit
    \/ tableGameOpen_Finish

SpecFinish == InitDefault /\ [][NextFinish]_vars

\* the statistics of a hand: raises, all-ins, calls and folds of a longer betting round
NextStat ==
    \/ PlayersAutoIn
    \/ SetUpTableGame(PlayerIDs)
    \/ OnOpenGameReady
    \/ tableGameOpen_Begin
    \/ tableGameOpen_Retry
    \/ tableGameOpen_Commit
    \/ tableGameOpen_Finish
    \/ GameReadyTimeout
    \/ GameStateUpdater
    \/ TableUpdateGameState
    \/ continueGame
    \/ \E expired \in BOOLEAN : ContinuationTask(expired)
    \/ \E p \in PlayerIDs, action \in {"raise", "allin", "call", "fold"} :
          PlayerGameActionWithin(p, action, MaxStatActions)

SpecStat == InitDefault /\ [][NextStat]_vars

\* the end of a hand with the calls and goroutines that do not wait for te.lock
NextLate ==
    \/ PlayersAutoIn
    \/ PauseTable
    \/ SetUpTableGame(PlayerIDs)
    \/ OnOpenGameReady
    \/ tableGameOpen_Begin
    \/ tableGameOpen_Retry
    \/ tableGameOpen_Commit
    \/ tableGameOpen_Finish
    \/ GameReadyTimeout
    \/ GameStateUpdater
    \/ TableUpdateGameState
    \/ continueGame
    \/ \E expired \in BOOLEAN : ContinuationTask(expired)
    \/ \E p \in PlayerIDs, action \in {"call", "fold"} :
          PlayerGameAction_Call(p, action, MaxHandActions)
    \/ PlayerGameAction_Record

SpecLate == InitDefault /\ [][NextLate]_vars

\* the table of a setting with an ante
InitAnte == InitBlind(AnteBlind)

\* one hand with an ante on the Game's goroutines: the consumer, the timer of the
\* ready group and the players' calls
NextGame ==
    \/ PlayersAutoIn
    \/ SetUpTableGame(PlayerIDs)
    \/ OnOpenGameReady
    \/ tableGameOpen_Begin
    \/ tableGameOpen_Retry
    \/ tableGameOpen_Commit
    \/ tableGameOpen_Finish
    \/ GameReadyTimeout
    \/ OnAntesReceived
    \/ GameStateUpdater
    \/ TableUpdateGameState
    \/ continueGame
    \/ \E expired \in BOOLEAN : ContinuationTask(expired)
    \/ \E p \in PlayerIDs : PlayerReady(p)
    \/ \E p \in PlayerIDs : PlayerPay(p)
    \/ \E p \in PlayerIDs : PlayerCall(p)
    \/ \E p \in PlayerIDs : PlayerFold(p)

SpecGame == InitAnte /\ [][NextGame]_vars

\* the timer of the ready group fires 17 s after Start unless the barrier completed
\* before: an armed barrier does not stay armed for ever
SpecGameFair == SpecGame /\ WF_vars(GameReadyTimeout)

----------------------------------------------------------------------------
(* Claims on the opening of hands *)

\* a step of the running tableGameOpen call
tgoStep == ret'.op \in {"openGame", "startGame", "tableGameOpen"}

\* the step made an openGame attempt that returned an error
openGameFailedStep == tgoStep /\ ret'.openErr \notin {"", Err_Nil}

\* C2: GameCount never decreases: the only steps that change it are the commits of
\* tableGameOpen after a successful openGame, each raising it by exactly 1, and every
\* such commit does raise it; the first hand is settled with GameCount = 1.
C2_GameCount ==
    /\ [][ /\ table'.GameCount # table.GameCount =>
                /\ tgo.pc = "commit"
                /\ ret'.committed
                /\ table'.GameCount = table.GameCount + 1
           /\ (tgo.pc = "commit" /\ tgoStep) => table'.GameCount = table.GameCount + 1
         ]_vars
    /\ [](ret.op = "settleGame" /\ game.hand = 1 => table.GameCount = 1)

\* the first hand has been opened, played and settled
C2_Witness ==
    /\ ret.op = "settleGame"
    /\ ret.err = Err_Nil
    /\ game.hand = 1
    /\ table.GameCount = 1

\* C5: once Status is closed no step changes Status or raises GameCount.
C5_ClosedIsTerminal ==
    [][ table.Status = Status_Closed =>
            /\ table'.Status = Status_Closed
            /\ table'.GameCount = table.GameCount ]_vars

tgoRetryCommon ==
    /\ [](ret.op \in {"openGame", "startGame", "tableGameOpen"} => ret.attempts <= Retry + 1)
    /\ [](ret.op = "tableGameOpen" /\ ret.openErr = Err_OpenGameFailed =>
            /\ ret.err = Err_OpenGameFailed
            /\ ret.attempts = Retry + 1
            /\ ~ret.committed)
    /\ [](ret.op = "tableGameOpen" /\ ret.openErr = "" /\ ~ret.committed => ret.err = Err_Nil)
    /\ [][ /\ (tgo.pc \in {"call", "sleep"} /\ tgoStep) => table' = table
           /\ (tgo.pc = "sleep" /\ tgoStep /\ table.Status \in gameStartingStatuses) =>
                    ret' = [Return("tableGameOpen", "", Err_Nil) EXCEPT !.attempts = tgo.attempts]
           /\ (tgo.pc = "commit" /\ tgoStep) =>
                    /\ table' = tgo.newTable
                    /\ table'.GameCount = table.GameCount + 1
                    /\ ret'.committed /\ ret'.backend
                    /\ ret'.attempts = tgo.attempts
           /\ (tgo.pc = "started" /\ tgoStep) =>
                    /\ table'.GameCount = table.GameCount
                    /\ ret'.attempts = tgo.attempts
                    /\ tgo'.pc = "idle"
         ]_vars

\* C7 as stated: after a first OpenGameFailed there are at most 10 more attempts; a
\* success is committed once; eleven failures return OpenGameFailed with the Table
\* untouched; a running status before a retry returns nil; and any other error of a
\* retry is returned as it is.
C7_RetryAsStated ==
    /\ tgoRetryCommon
    /\ [](ret.op = "tableGameOpen" /\ ret.attempts >= 2
            /\ ret.openErr \notin {"", Err_Nil, Err_OpenGameFailed} => ret.err = ret.openErr)

\* C7 amended: as stated, except that OpenGameFailedInBlindBreakingLevel, at the first
\* attempt or at a retry, makes the call return nil without opening; only the other
\* errors are returned as they are.
C7_Retry ==
    /\ tgoRetryCommon
    /\ [](ret.op = "tableGameOpen" /\ ret.openErr = Err_OpenGameFailedInBlindBreakingLevel =>
            ret.err = Err_Nil /\ ~ret.committed)
    /\ [](ret.op = "tableGameOpen"
            /\ ret.openErr \notin {"", Err_Nil, Err_OpenGameFailed,
                                   Err_OpenGameFailedInBlindBreakingLevel} =>
            ret.err = ret.openErr /\ ~ret.committed)

\* a retry ran into the breaking level and the call returned nil
C7_Witness ==
    /\ ret.op = "tableGameOpen"
    /\ ret.attempts >= 2
    /\ ret.openErr = Err_OpenGameFailedInBlindBreakingLevel
    /\ ret.err = Err_Nil

\* C8: a tableGameOpen called while BlindState.Level = -1 returns nil after its first
\* openGame, without retrying, committing or starting a Game.
C8_BreakingReturnsNil ==
    (ret.openErr # "" /\ ret.attempts = 1 /\ table.BlindState.Level = -1) =>
        /\ ret.op = "tableGameOpen"
        /\ ret.err = Err_Nil
        /\ ~ret.committed
        /\ tgo.pc = "idle"

----------------------------------------------------------------------------
(* Claims on the hand *)

PlayerGameActions == ReadyGroupActions \cup PlayMoves

\* row k of GameState.Result.Players is on the bankroll of its table player
settledRowMatches(t, k) ==
    /\ k <= Len(t.GamePlayerIndexes)
    /\ t.GamePlayerIndexes[k] + 1 \in 1 .. Len(t.PlayerStates)
    /\ t.PlayerStates[t.GamePlayerIndexes[k] + 1].Bankroll = t.GameState.finals[k]

\* C1: whenever settleGame has run for a closed hand, it got to the GameSettled event
\* and every row of Result.Players is the Bankroll of PlayerStates[GamePlayerIndexes[r.Idx]].
C1_SettledBankrolls ==
    ret.op = "settleGame" =>
        /\ ret.err = Err_Nil
        /\ \A k \in 1 .. Len(table.GameState.finals) : settledRowMatches(table, k)

C4_MinGamePlayers ==
    table.Status \in gameStartingStatuses =>
        Len(table.GamePlayerIndexes) >= TableMinPlayerCount

\* C9: a player game action of a player without game-player index returns
\* PlayerNotFound in every status; of a game player while Status is not playing it
\* returns InvalidGameAction; the Game is not invoked in either case.
C9_ValidateGameMove ==
    (ret.op \in PlayerGameActions /\ ret.err # Err_Panic) =>
        /\ FindGamePlayerIdx(table, ret.pid) = UnsetValue =>
                ret.err = Err_PlayerNotFound /\ ~ret.backend
        /\ (FindGamePlayerIdx(table, ret.pid) # UnsetValue
                /\ table.Status # Status_GamePlaying) =>
                ret.err = Err_InvalidGameAction /\ ~ret.backend

\* the step is the call ret'.op of game player ret'.pid, made while playing, and the
\* hand's latest state does not permit it: a move of another player than CurrentPlayer,
\* a ready or pay without that allowed action
notPermittedCall ==
    /\ ret'.op \in PlayerGameActions
    /\ table.Status = Status_GamePlaying
    /\ ~FindGamePlayerIdxPanics(table, ret'.pid)
    /\ FindGamePlayerIdx(table, ret'.pid) # UnsetValue
    /\ IF ret'.op \in PlayMoves
       THEN game.gs.cur # FindGamePlayerIdx(table, ret'.pid)
       ELSE ~HasAction(game.gs, FindGamePlayerIdx(table, ret'.pid), ret'.op)

\* C10: while playing, a call the hand's state does not permit returns InvalidAction,
\* the backend is not called, and the Game, the Table (GameState, LastPlayerGameAction,
\* statistics) and everything else stay as they were.
C10_InvalidAction ==
    [][ notPermittedCall =>
            /\ ret'.err = Err_GameInvalidAction
            /\ ~ret'.backend
            /\ game' = game
            /\ table' = table ]_vars

\* a fold out of turn, while another player is to act, was refused
C10_Witness ==
    /\ ret.op = "fold"
    /\ ret.err = Err_GameInvalidAction
    /\ table.Status = Status_GamePlaying
    /\ game.gs.cur # UnsetValue
    /\ FindGamePlayerIdx(table, ret.pid) \notin {UnsetValue, game.gs.cur}

----------------------------------------------------------------------------
(* Claims on seats and chips *)

\* every SeatMap entry other than -1 is an index of PlayerStates whose player sits
\* on that seat, no two seats hold the same index, every player is at its own seat
SeatMapConsistent(t) ==
    /\ \A x \in Seats :
          t.SeatMap[x] # UnsetValue =>
             /\ t.SeatMap[x] + 1 \in 1 .. Len(t.PlayerStates)
             /\ t.PlayerStates[t.SeatMap[x] + 1].Seat = x
    /\ \A x, y \in Seats :
          (x # y /\ t.SeatMap[x] # UnsetValue) => t.SeatMap[x] # t.SeatMap[y]
    /\ \A i \in 1 .. Len(t.PlayerStates) :
          /\ t.PlayerStates[i].Seat \in Seats
          /\ t.SeatMap[t.PlayerStates[i].Seat] = i - 1

\* C11: in every reachable state, after any sequence of CreateTable, PlayerReserve,
\* UpdateTablePlayers, PlayersLeave and tableGameOpen calls, failed ones included,
\* the SeatMap and the PlayerStates of the Table agree
C11_SeatMapConsistent == SeatMapConsistent(table)

\* C12: in every reachable state every Bankroll is at least 0 and a player whose
\* Bankroll is 0 is not active in the seat manager, after any sequence of
\* PlayerReserve, PlayerRedeemChips, settlement and continueGame. The states between
\* settleGame and the continueGame of the same consumer call are left out: there the
\* seat manager has not been told yet
C12_NoChipsNotActive ==
    upd.pc # "settled" =>
        \A i \in 1 .. Len(table.PlayerStates) :
            /\ table.PlayerStates[i].Bankroll >= 0
            /\ table.PlayerStates[i].Bankroll = 0 =>
                  ~SmIsPlayerActive(sm, table.PlayerStates[i].PlayerID)

\* the step is a settleGame that got through its loop
settleStep == ret'.op = "settleGame" /\ ret'.err = Err_Nil

\* the step is the commit of a tableGameOpen: a hand is opened
openStep == table'.GameCount = table.GameCount + 1

\* C13: a player whose Bankroll is 0 after settlement is not in the
\* NextBBOrderPlayerIDs computed at that settlement, and is in the GamePlayerIndexes of
\* no later hand while its Bankroll stays 0
C13_BustedPlayerSitsOut ==
    [][/\ settleStep =>
            \A i \in 1 .. Len(table'.PlayerStates) :
                table'.PlayerStates[i].Bankroll = 0 =>
                    table'.PlayerStates[i].PlayerID \notin Range(table'.NextBBOrderPlayerIDs)
       /\ (openStep /\ table.GameCount >= 1) =>
            \A k \in 1 .. Len(table'.GamePlayerIndexes) :
                table'.PlayerStates[table'.GamePlayerIndexes[k] + 1].Bankroll # 0]_vars

\* C14: with a backend that conserves chips, the bankrolls of the table right after
\* settleGame add up to their sum at the start of the hand plus the chips PlayerReserve
\* and PlayerRedeemChips credited during the hand
C14_ChipsConserved ==
    [][settleStep => TableChips(table') = game.startChips + game.credited]_vars

----------------------------------------------------------------------------
(* Claims on the engine mutex and the update serial *)

\* the step is made by a call that holds te.lock while it writes: tableGameOpen,
\* PlayersLeave, UpdateTablePlayers, PlayerReserve and the nine player actions
lockedStep ==
    \/ tableGameOpen_Begin
    \/ tableGameOpen_Retry
    \/ tableGameOpen_Commit
    \/ tableGameOpen_Finish
    \/ \E p \in PlayerIDs : PlayersLeave({p})
    \/ \E joinPlayers \in JoinLists, leave \in LeaveInputs : UpdateTablePlayers(joinPlayers, leave)
    \/ \E joinPlayer \in ReserveInputs : PlayerReserve(joinPlayer)
    \/ \E p \in PlayerIDs, action \in ReadyGroupActions \cup PlayMoves : PlayerGameAction(p, action)

\* C15: every operation that changes the Table runs holding the engine mutex
C15_MutationsUnderLock == [][table' # table => lockedStep]_vars

\* the step is a public call that returned nil
successfulCall ==
    \/ \E p \in PlayerIDs : PlayerJoin(p) /\ FindPlayerIdx(table, p) # UnsetValue
    \/ PauseTable
    \/ CloseTable
    \/ \E blind \in BlindInputs : UpdateBlind(blind)
    \/ \E parts \in ParticipantInputs : SetUpTableGame(parts)
    \/ /\ \E p \in PlayerIDs, action \in ReadyGroupActions \cup PlayMoves : PlayerGameAction(p, action)
       /\ ret'.err = Err_Nil

\* C16: after any successful public call UpdateSerial is strictly greater than
\* before it: the call ran emitEvent at least once
C16_SerialIncreases == [][successfulCall => ret'.emits >= 1]_vars

----------------------------------------------------------------------------
(* Claims on the Game *)

\* C17: the Game hands its states to handleGameState one at a time in the order
\* updateGameState stored them: the channel holds, in order, exactly the stored states
\* not yet handled, and the state of this Game being handled is the last one taken
C17_InOrder ==
    /\ \A k \in 1 .. Len(game.incomingStates) :
          game.incomingStates[k].seq = game.nhandled + k
    /\ game.nhandled + Len(game.incomingStates) = game.nstored
    /\ (upd.pc # "idle" /\ upd.gs.hand = game.hand) => upd.gs.seq = game.nhandled

\* two stored states wait for the consumer, which has handled others before
C17_Witness == Len(game.incomingStates) >= 2 /\ game.nhandled >= 1

\* the step in which the barrier of the blinds completes: PayBlinds, then OnBlindsReceived
blindsReceivedStep ==
    /\ game.gs.event = "BlindsRequested"
    /\ game.rg.on
    /\ ~game'.rg.on
    /\ game'.nsteps = game.nsteps + 1

\* C18: within a hand OnAntesReceived has returned when OnBlindsReceived starts
C18_AntesBeforeBlinds == [][blindsReceivedStep => ~game.antesCb]_vars

\* a call of g.updateGameState can start in this state: a barrier is armed, a play
\* move passes validatePlayMove, or the consumer has a RoundClosed state to handle
storePossible(g) ==
    \/ g.rg.on
    \/ \E playerIdx \in 0 .. (Len(g.gs.bank) - 1) : validatePlayMove(g.gs, playerIdx) = Err_Nil
    \/ \E k \in 1 .. Len(g.incomingStates) : g.incomingStates[k].event = "RoundClosed"

armingsAnswered(g) == g.narmed = g.nsteps + (IF g.rg.on THEN 1 ELSE 0)

\* C20: every arming of the ready group on ReadyRequested, AnteRequested (ante > 0) or
\* BlindsRequested is followed by its backend step (ReadyForAll, PayAnte, PayBlinds),
\* at the latest by the timeout and also when no player acts, and by exactly one
C20_StepPerArming ==
    /\ [](armingsAnswered(game) /\ game.narmed <= 3)
    /\ \A h \in 1 .. MaxGameCount : \A n \in 1 .. 3 :
          (game.hand = h /\ game.rg.on /\ game.narmed = n)
              ~> (game.hand # h \/ (~game.rg.on /\ game.nsteps = n))

\* the three barriers of a hand with an ante completed and no player called Ready or Pay
C20_Witness ==
    /\ game.narmed = 3
    /\ game.nsteps = 3
    /\ ~game.rg.on
    /\ game.gs.event = "RoundStarted"
    /\ table.LastPlayerGameAction = NilAction

----------------------------------------------------------------------------
(* Claims on the continuation of a settled hand *)

\* the task scheduled by continueGame fires
taskFires == task.pending /\ ~task'.pending

\* C21: when the table is released or closed while the continuation is scheduled,
\* the continuation sets up no hand, leaves Status alone and emits nothing, on the
\* normal and on the expired path
C21_ReleasedIsNoOp ==
    [][(taskFires /\ ~task.released /\ (isReleased \/ table.Status = Status_Closed)) =>
            /\ table' = table
            /\ ogm' = ogm
            /\ ~ret'.setup
            /\ ret'.emits = 0
            /\ ~ret'.statusUpdated
            /\ ret'.autoEnd = 0]_vars

pauseDue == taskFires /\ ~isReleased /\ table.Status # Status_Closed /\ table.BlindState.Level = -1

\* the continuation pauses the table: Status pausing, StatusUpdated, no hand set up
pauses ==
    /\ table' = [table EXCEPT !.Status = Status_Pausing]
    /\ ret'.statusUpdated
    /\ ret'.emits = 1
    /\ ~ret'.setup
    /\ ogm' = ogm

\* C23 as stated: a continuation that finds the blind level -1 pauses the table, in
\* every mode and for every hand
C23_PausesAsStated == [][pauseDue => pauses]_vars

\* C23: a continuation that finds the blind level -1 pauses the table, unless the
\* table time of a CT or Cash table was up when the hand was settled: that
\* continuation leaves Status alone and emits no StatusUpdated event
C23_Pauses ==
    [][/\ (pauseDue /\ ~task.expired) => pauses
       /\ (pauseDue /\ task.expired) =>
            (table' = table /\ ~ret'.statusUpdated /\ ret'.emits = 0 /\ ~ret'.setup /\ ogm' = ogm)
       /\ (taskFires /\ table.BlindState.Level # -1) => table'.Status = table.Status]_vars

\* the continuation of an MTT table paused it for the break
C23_Witness ==
    /\ ret.op = "continuation"
    /\ ret.statusUpdated
    /\ table.Status = Status_Pausing
    /\ table.BlindState.Level = -1
    /\ table.Mode = CompetitionMode_MTT
    /\ ~isReleased

\* the continuation fires on the normal path
normalContinuation ==
    /\ taskFires
    /\ ~task.expired
    /\ ~isReleased
    /\ table.Status # Status_Closed
    /\ table.BlindState.Level # -1

\* the players of the hand just settled that ended it with chips
finishedWithChips(t) ==
    { t.PlayerStates[t.GamePlayerIndexes[k] + 1].PlayerID :
        k \in { j \in 1 .. Len(t.GamePlayerIndexes) :
                  t.PlayerStates[t.GamePlayerIndexes[j] + 1].Bankroll > 0 } }

\* C24: on the normal path the continuation sets up the next hand exactly when Status
\* is standby and at least TableMinPlayerCount players have chips, with the players
\* that ended the settled hand with chips as participants; otherwise it changes nothing
C24_AutoGameOpen ==
    [][/\ settleStep => upd'.alive = finishedWithChips(table')
       /\ (upd.pc = "settled" /\ upd'.pc # "settled") =>
            (task'.pending /\ task'.alive = upd.alive)
       /\ normalContinuation =>
            /\ ret'.setup <=>
                   /\ table.Status = Status_Standby
                   /\ Cardinality({ i \in 1 .. Len(table.PlayerStates) :
                                      table.PlayerStates[i].Bankroll > 0 }) >= TableMinPlayerCount
            /\ ret'.setup => ogm' = [armed |-> TRUE, parts |-> task.alive, ready |-> {}]
            /\ ~ret'.setup => ogm' = ogm
            /\ table' = table]_vars

\* the continuation set up the next hand for exactly TableMinPlayerCount players
C24_Witness ==
    /\ ret.op = "continuation"
    /\ ret.setup
    /\ ogm.armed
    /\ Cardinality(ogm.parts) = TableMinPlayerCount
    /\ Cardinality(AlivePlayers(table)) = TableMinPlayerCount
    /\ table.Status = Status_Standby

----------------------------------------------------------------------------
(* Claims on single calls *)

\* C25: PlayerSettlementFinish for a player id that is not in PlayerStates returns
\* ErrTablePlayerNotFound and changes nothing: not the Table, not the ready set of the
\* open game manager, and it starts no tableGameOpen, however often it is called
C25_UnknownPlayerFinish ==
    [][(ret'.op = "PlayerSettlementFinish"
        /\ \A i \in 1 .. Len(table.PlayerStates) : table.PlayerStates[i].PlayerID # ret'.pid) =>
            /\ ret'.err = Err_PlayerNotFound
            /\ UNCHANGED <<table, sm, ogm, game, lock, pga, tgo, upd, task, isReleased, panicked>>]_vars

\* a player that is not at the table, but is a participant the armed manager still
\* waits for, called PlayerSettlementFinish
C25_Witness ==
    /\ ret.op = "PlayerSettlementFinish"
    /\ ret.err = Err_PlayerNotFound
    /\ ogm.armed
    /\ ret.pid \in ogm.parts \ ogm.ready
    /\ ogm.ready # {}

----------------------------------------------------------------------------
(* Claims on the statistics of a hand *)

\* the players of t who hold the 3-Bet
threeBettors(t) == { i \in 1 .. Len(t.PlayerStates) : t.PlayerStates[i].GameStatistics.Is3B }

\* the step is a successful PlayerRaise, or a successful PlayerAllin as the raiser, of a
\* player who has the 3-Bet chance while another player holds the 3-Bet
threeBetTaken ==
    /\ ret'.err = Err_Nil
    /\ ret'.op = "raise" \/ (ret'.op = "allin" /\ ret'.asRaiser)
    /\ FindPlayerIdx(table, ret'.pid) # UnsetValue
    /\ table.PlayerStates[FindPlayerIdx(table, ret'.pid) + 1].GameStatistics.Is3BChance
    /\ threeBettors(table) \ {FindPlayerIdx(table, ret'.pid) + 1} # {}

\* C26: at most one player holds the 3-Bet (Is3B) in every reachable state; and when a
\* player with Is3BChance raises, or goes all-in as the raiser, while another player
\* holds the 3-Bet, the raiser is the only holder after the action.
C26_OneThreeBettor ==
    /\ [](Cardinality(threeBettors(table)) <= 1)
    /\ [][ threeBetTaken =>
             threeBettors(table') = {FindPlayerIdx(table, ret'.pid) + 1} ]_vars

\* a player who faced the 3-Bet of another player has raised and holds the 3-Bet alone
C26_Witness ==
    /\ ret.op = "raise"
    /\ ret.err = Err_Nil
    /\ FindPlayerIdx(table, ret.pid) # UnsetValue
    /\ table.PlayerStates[FindPlayerIdx(table, ret.pid) + 1].GameStatistics.IsFt3BChance
    /\ threeBettors(table) = {FindPlayerIdx(table, ret.pid) + 1}
    /\ \E i \in 1 .. Len(table.PlayerStates) :
          /\ i # FindPlayerIdx(table, ret.pid) + 1
          /\ table.PlayerStates[i].GameStatistics.Is3BChance
    /\ table.Status = Status_GamePlaying

\* the statistics of the player of the call the step returns from
foldersStatistics(t) == t.PlayerStates[FindPlayerIdx(t, ret'.pid) + 1].GameStatistics

\* the step is a successful PlayerFold
foldStep ==
    /\ ret'.op = "fold"
    /\ ret'.err = Err_Nil
    /\ FindPlayerIdx(table, ret'.pid) # UnsetValue

\* C27: a successful PlayerFold realises IsFtCB exactly when the folding player has
\* IsFtCBChance, and IsFt3B exactly when the player has IsFt3BChance; a fold without
\* IsFtCBChance leaves IsFtCB false.
C27_FoldRealises ==
    [][ foldStep =>
          /\ foldersStatistics(table').IsFtCB =
                (foldersStatistics(table).IsFtCB \/ foldersStatistics(table).IsFtCBChance)
          /\ foldersStatistics(table').IsFt3B =
                (foldersStatistics(table).IsFt3B \/ foldersStatistics(table).IsFt3BChance) ]_vars

----------------------------------------------------------------------------
(* Claims on the players of a hand *)

\* the game players whose setting, as passed to the backend, carries the position
settingsWith(position) == { k \in 1 .. Len(game.gs.pos) : position \in game.gs.pos[k] }

openedStep == ret'.op = "openGame" /\ ret'.openErr = Err_Nil

\* the players of t who take part in the hand
participants(t) == { i \in 1 .. Len(t.PlayerStates) : t.PlayerStates[i].IsParticipated }

\* the seat the list of game players starts at: the dealer seat when a participating
\* player sits there, else the fake dealer seat, the first active seat counter-clockwise
\* from the SB seat when that holds a participating player, else from the BB seat
startSeatOf(t, s) ==
    LET seated(seatID) == \E i \in participants(t) : t.PlayerStates[i].Seat = seatID
    IN IF seated(t.CurrentDealerSeat) THEN t.CurrentDealerSeat
       ELSE FakeDealerSeatID(IF seated(t.CurrentSBSeat) THEN t.CurrentSBSeat ELSE t.CurrentBBSeat,
                             TableMaxSeatCount, s)

\* how far seatID is from seat start, going clockwise
clockwiseSteps(start, seatID) == (seatID - start + TableMaxSeatCount) % TableMaxSeatCount

\* GamePlayerIndexes of t lists exactly the participating players, each once, in
\* clockwise seat order from the seat start
listedClockwise(t, start) ==
    LET listed == t.GamePlayerIndexes
        seatAt(k) == t.PlayerStates[listed[k] + 1].Seat
    IN /\ \A k \in 1 .. Len(listed) : listed[k] + 1 \in participants(t)
       /\ \A i \in participants(t) : Cardinality({ k \in 1 .. Len(listed) : listed[k] = i - 1 }) = 1
       /\ \A k \in 1 .. (Len(listed) - 1) :
             clockwiseSteps(start, seatAt(k)) < clockwiseSteps(start, seatAt(k + 1))

\* C30: the GamePlayerIndexes openGame computes hold every participating player exactly
\* once and no other player, in clockwise seat order from the dealer seat when a
\* participating player sits there, and otherwise from the fake dealer seat.
C30_GamePlayerIndexes ==
    [][ openedStep => listedClockwise(tgo'.newTable, startSeatOf(tgo'.newTable, sm')) ]_vars

----------------------------------------------------------------------------
(* Claims on the table between two hands *)

\* what continueGame resets is as it left it
handCleared(t) ==
    /\ t.GamePlayerIndexes = <<>>
    /\ t.NextBBOrderPlayerIDs = <<>>
    /\ t.GameState = NilGameState
    /\ t.LastPlayerGameAction = NilAction
    /\ \A i \in 1 .. Len(t.PlayerStates) :
          /\ t.PlayerStates[i].Positions = {}
          /\ t.PlayerStates[i].GameStatistics = NewPlayerGameStatistics

\* C29: whenever Status is standby, GamePlayerIndexes and NextBBOrderPlayerIDs are empty,
\* GameState and LastPlayerGameAction are nil, and every player has no positions and the
\* zero statistics: no late event of the finished hand changes them while the status
\* stays standby.
C29_StandbyIsCleared == table.Status = Status_Standby => handCleared(table)

----------------------------------------------------------------------------
(* Claims on the end of a hand *)

\* settleGame ran, to its end or into a panic
settleRun == ret'.op = "settleGame"

\* continueGame ran
continueRun == upd.pc = "settled" /\ upd'.pc = "idle"

\* C31: a hand is settled once, for the GameClosed state of its Game: that state is
\* the last one the Game stores and hands over, the Game is closed when settleGame
\* runs, no state of a closed Game is handled afterwards whatever timers fire and
\* players call, and continueGame runs only after a settlement
C31_SettledOnce ==
    /\ [](game.isClosed => game.incomingStates = <<>>)
    /\ [][/\ settleRun =>
                /\ upd.gs.event = "GameClosed"
                /\ (upd.gs.hand = game.hand) =>
                      (game.isClosed /\ game.closes = 1 /\ upd.gs.seq = game.nstored)
                /\ upd'.pc \notin {"statistics", "event"} \/ panicked'
          /\ continueRun =>
                /\ upd.gs.event = "GameClosed"
                /\ (upd.gs.hand = game.hand) => upd.gs.seq = game.nstored
          /\ (game.isClosed /\ game'.hand = game.hand) =>
                 (game'.nhandled = game.nhandled /\ game'.nstored = game.nstored)]_vars

\* a player called a game action after the hand was settled and continued
C31_Witness ==
    /\ game.isClosed
    /\ game.gs.steps >= 1
    /\ table.Status = Status_Standby
    /\ upd.pc = "idle"
    /\ ret.op \in PlayMoves
    /\ ret.err # Err_Nil

\* the delay calls that have returned
delayReturns(tk) == tk.runs + tk.cancels

\* continueGame schedules its task while the task of an earlier call is pending
supersedes == task.pending /\ task'.calls = task.calls + 1

\* C32: every call of delay returns, once: a call is released by the run of its task
\* or by its cancellation through a newer NewTask, never by both; a cancelled task does
\* not run the handler: it leaves Status to continueGame and sets up no hand
C32_DelayReturns ==
    /\ [](task.calls = delayReturns(task) + (IF task.pending THEN 1 ELSE 0))
    /\ [][/\ supersedes =>
                /\ task'.cancels = task.cancels + 1
                /\ task'.runs = task.runs
                /\ task'.pending
                /\ table'.Status = Status_Standby
                /\ ogm' = ogm
                /\ ~ret'.setup /\ ~ret'.statusUpdated
          /\ taskFires => (task'.runs = task.runs + 1 /\ task'.cancels = task.cancels)]_vars
    /\ \A n \in 1 .. (MaxGameCount + 1) : (task.calls = n) ~> (delayReturns(task) = n)

\* the task of the first hand was cancelled by the continuation of the second, whose
\* task ran
C32_Witness == task.cancels = 1 /\ task.runs = 1 /\ task.calls = 2 /\ ~task.pending

----------------------------------------------------------------------------
(* Claims on the player actions of the ready group *)

\* PlayerPay returned nil
payStep == ret'.op = "pay" /\ ret'.err = Err_Nil

----------------------------------------------------------------------------
(* Claims on the hands in progress *)

\* C36: a tableGameOpen that runs while a hand is in progress (Status game_opened,
\* playing or game_settled) does not run openGame with success again: no second hand
\* is opened before the first is settled and continued
C36_OneHandInProgress ==
    [][openedStep => table.Status \notin gameStartingStatuses]_vars

----------------------------------------------------------------------------
(* Claims on the showdown statistics *)

\* the game player index of table player i in the hand of t, or UnsetValue
gamePlayerOf(t, i) ==
    IF \E k \in 1 .. Len(t.GamePlayerIndexes) : t.GamePlayerIndexes[k] = i - 1
    THEN (CHOOSE k \in 1 .. Len(t.GamePlayerIndexes) : t.GamePlayerIndexes[k] = i - 1) - 1
    ELSE UnsetValue

\* table player i has a result row in the closed hand of t and did not fold
stayedIn(t, i) ==
    /\ gamePlayerOf(t, i) # UnsetValue
    /\ gamePlayerOf(t, i) < Len(t.GameState.finals)
    /\ gamePlayerOf(t, i) \notin t.GameState.fold

\* more than one player of the closed hand of t did not fold
showdown(t) == Cardinality(notFolded(t.GameState)) > 1

\* after settleGame a player has ShowdownWinningChance exactly when the player has a
\* result row, did not fold and more than one player did not fold, and
\* IsShowdownWinning only when the player did not fold
chanceAsStated(t) ==
    \A i \in 1 .. Len(t.PlayerStates) :
        /\ t.PlayerStates[i].GameStatistics.ShowdownWinningChance <=> (stayedIn(t, i) /\ showdown(t))
        /\ t.PlayerStates[i].GameStatistics.IsShowdownWinning => stayedIn(t, i)

\* the winners the ranking returned, as table players
winnersOf(t, winners) == { i \in 1 .. Len(t.PlayerStates) : gamePlayerOf(t, i) \in winners }

\* C34 as stated: after settleGame the showdown chance is as described and every
\* player returned by GetWinners() has IsShowdownWinning
C34_ShowdownAsStated ==
    [][settleStep =>
         /\ chanceAsStated(table')
         /\ \A i \in winnersOf(table', ret'.winners) :
               table'.PlayerStates[i].GameStatistics.IsShowdownWinning]_vars

\* C34 amended: after settleGame the showdown chance is as described; the players
\* returned by GetWinners() have IsShowdownWinning exactly when more than one player
\* did not fold, and nobody has it when at most one player did not fold
C34_Showdown ==
    [][settleStep =>
         /\ chanceAsStated(table')
         /\ \A i \in 1 .. Len(table'.PlayerStates) :
               table'.PlayerStates[i].GameStatistics.IsShowdownWinning <=>
                   (showdown(table') /\ i \in winnersOf(table', ret'.winners))]_vars

\* a hand with two players left was settled: one of them is the winner, the other has
\* the chance only
C34_Witness ==
    /\ ret.op = "settleGame"
    /\ ret.err = Err_Nil
    /\ Cardinality(notFolded(table.GameState)) = 2
    /\ \E i, j \in 1 .. Len(table.PlayerStates) :
          /\ table.PlayerStates[i].GameStatistics.IsShowdownWinning
          /\ table.PlayerStates[j].GameStatistics.ShowdownWinningChance
          /\ ~table.PlayerStates[j].GameStatistics.IsShowdownWinning

\* a hand that everybody but one player folded was settled: the winner is not marked
C34_FoldedOut ==
    /\ ret.op = "settleGame"
    /\ ret.err = Err_Nil
    /\ Cardinality(notFolded(table.GameState)) = 1
    /\ ret.winners = notFolded(table.GameState)
    /\ \A i \in 1 .. Len(table.PlayerStates) :
          ~table.PlayerStates[i].GameStatistics.IsShowdownWinning

----------------------------------------------------------------------------
(* Claims on the paused table *)

\* C35: while Status is pausing no hand is opened: the continuation sets up no hand,
\* and a tableGameOpen of a hand that was set up before does not run openGame with
\* success, so that GameCount stays and no Game is started
C35_PausedOpensNoHand ==
    [][table.Status = Status_Pausing =>
          /\ ~(taskFires /\ ret'.setup)
          /\ ~openedStep
          /\ table'.GameCount = table.GameCount
          /\ game'.hand = game.hand]_vars

----------------------------------------------------------------------------
(* Claims on the start of the table *)

\* C40: StartAt is written at most once and OnReadyOpenFirstTableGame is emitted at
\* most once, whoever calls StartTableGame and however the calls overlap
C40_StartedOnce ==
    /\ [](stg.opens <= 1)
    /\ [][table.StartAt # UnsetValue =>
             (table'.StartAt = table.StartAt /\ stg'.opens = stg.opens)]_vars

----------------------------------------------------------------------------
(* Claims on the indexes of the players of a hand *)

\* C38: every entry of GamePlayerIndexes is an index of PlayerStates, no entry occurs
\* twice, and no call stops in an index out of range
C38_IndexesInRange ==
    /\ \A k \in 1 .. Len(table.GamePlayerIndexes) :
           /\ table.GamePlayerIndexes[k] \in 0 .. (Len(table.PlayerStates) - 1)
           /\ \A l \in 1 .. Len(table.GamePlayerIndexes) :
                  table.GamePlayerIndexes[l] = table.GamePlayerIndexes[k] => l = k
    /\ ~panicked

----------------------------------------------------------------------------
(* Claims on the dealer button *)

\* InitPositions or RotatePositions has placed the positions in this step
positionsMoved ==
    <<sm'.inited, sm'.dealer, sm'.sb, sm'.bb>> # <<sm.inited, sm.dealer, sm.sb, sm.bb>>

\* C39: the positions advance once per opened hand: they move only in an openGame that
\* succeeds, and they do not move again before the hand opened last has been played
C39_OneMovePerHand ==
    [][positionsMoved => (openedStep /\ (sm.inited => game.isClosed))]_vars

----------------------------------------------------------------------------
(* Claims on the updates of the calls that do not take te.lock *)

\* tableGameOpen commits the table openGame cloned: te.table = newTable
commitStep == tgo.pc = "commit" /\ ret'.committed

\* C37: the commit of tableGameOpen loses no update of a call that returned: what
\* openGame does not write (IsIn, Bankroll, the blind) is after the commit what the
\* live table held before it
C37_NoLostUpdate ==
    [][commitStep =>
          /\ Len(table'.PlayerStates) = Len(table.PlayerStates)
          /\ \A i \in 1 .. Len(table.PlayerStates) :
                 /\ table'.PlayerStates[i].IsIn = table.PlayerStates[i].IsIn
                 /\ table'.PlayerStates[i].Bankroll = table.PlayerStates[i].Bankroll
          /\ table'.BlindState = table.BlindState]_vars

============================================================================
